---- MODULE Spec2Model ----
(***************************************************************************)
(* Model of src/subtitle_improver.py: the transcript reconciler            *)
(* (adjust_srt_timings, transcribe_audio_async), the translation           *)
(* dispatcher and retranslation loop (translate_batch_async,               *)
(* translate_subtitles_async) and the segment splitter                     *)
(* (split_long_subtitle_text, split_subtitle_entry).                       *)
(*                                                                         *)
(* Representation of strings.  A caption text is a sequence of lines, a    *)
(* line is a sequence of words (joined by single spaces), a word is a      *)
(* record [id, n, cyr]: an identity, its character count, and whether it   *)
(* contains a character of [А-Яа-яЁё].  The empty line <<>> stands for a   *)
(* whitespace-only line of one character; the text <<>> is the empty       *)
(* string.  A timestamp "HH:MM:SS,mmm" is the tuple <<h, m, s, ms>> of its *)
(* four printed fields.  A caption id is a sequence of naturals: <<12>> is *)
(* the integer 12, <<12, 1>> the string "12_1", <<12, 1, 1>> "12_1_1".     *)
(***************************************************************************)
EXTENDS Integers, Sequences, FiniteSets, TLC

(***************************************************************************)
(* Generic helpers                                                         *)
(***************************************************************************)
Range(s) == {s[i] : i \in 1..Len(s)}

RECURSIVE SumSeq(_)
SumSeq(s) == IF s = <<>> THEN 0 ELSE Head(s) + SumSeq(Tail(s))

RECURSIVE Flatten(_)
Flatten(ss) == IF ss = <<>> THEN <<>> ELSE Head(ss) \o Flatten(Tail(ss))

\* Python round() and "%.3f": the nearest integer to num/den, ties to even.
RoundHalfEven(num, den) ==
    LET q == num \div den
        r == num % den
    IN  IF 2 * r < den THEN q
        ELSE IF 2 * r > den THEN q + 1
        ELSE IF q % 2 = 0 THEN q ELSE q + 1

(***************************************************************************)
(* Caption model: SubtitleEntry and timestamps                             *)
(***************************************************************************)
SubtitleEntry(index, start_time, end_time, text) ==
    [index |-> index, start_time |-> start_time, end_time |-> end_time, text |-> text]

\* Milliseconds denoted by a printed timestamp (parse_time, in ms).
parse_time(ts) == ts[1] * 3600000 + ts[2] * 60000 + ts[3] * 1000 + ts[4]

\* format_time of the rational num/den milliseconds: hours and minutes by
\* floor division, the seconds field printed with "%06.3f", which rounds to
\* the millisecond and can print 60.000.
format_time(num, den) ==
    LET h    == num \div (3600000 * den)
        rem  == num % (3600000 * den)
        m    == rem \div (60000 * den)
        srem == rem % (60000 * den)
        sms  == RoundHalfEven(srem, den)
    IN  <<h, m, sms \div 1000, sms % 1000>>

(***************************************************************************)
(* Segment splitter                                                        *)
(***************************************************************************)
MaxCharsPerLine == 45
MaxLinesPerEntry == 2

WordsLen(ws) == IF ws = <<>> THEN 0 ELSE SumSeq([i \in 1..Len(ws) |-> ws[i].n]) + (Len(ws) - 1)
LineLen(line) == IF line = <<>> THEN 1 ELSE WordsLen(line)
\* len(text): the lines and the newlines between them.
TextLen(text) ==
    IF text = <<>> THEN 0
    ELSE SumSeq([i \in 1..Len(text) |-> LineLen(text[i])]) + (Len(text) - 1)
\* text.split(): the words of all lines in order.
TextWords(text) == Flatten(text)
\* len(text.split('\n')): the empty string still has one line.
NumLines(text) == IF text = <<>> THEN 1 ELSE Len(text)

RECURSIVE WrapFrom(_, _, _, _, _)
WrapFrom(words, i, lines, cur, curLen) ==
    IF i > Len(words)
    THEN IF cur # <<>> THEN Append(lines, cur) ELSE lines
    ELSE LET word_length == words[i].n + (IF cur # <<>> THEN 1 ELSE 0)
         IN  IF curLen + word_length <= MaxCharsPerLine
             THEN WrapFrom(words, i + 1, lines, Append(cur, words[i]), curLen + word_length)
             ELSE WrapFrom(words, i + 1,
                           IF cur # <<>> THEN Append(lines, cur) ELSE lines,
                           <<words[i]>>, words[i].n)

split_long_subtitle_text(text) ==
    IF TextLen(text) <= MaxCharsPerLine THEN text
    ELSE WrapFrom(TextWords(text), 1, <<>>, <<>>, 0)

Renumber(parent, first_count, second_parts) ==
    [i \in 1..Len(second_parts) |->
        [second_parts[i] EXCEPT !.index = Append(parent, first_count + (i - 1))]]

\* Mutant: renumber only when both halves were split again.
RenumberNeededBoth(first_parts, second_parts) ==
    Len(first_parts) > 1 /\ Len(second_parts) > 1

RenumberNeeded(first_parts, second_parts) ==
    Len(first_parts) > 1 \/ Len(second_parts) > 1

JoinParts(entry, first_parts, second_parts) ==
    IF RenumberNeeded(first_parts, second_parts)
    THEN first_parts \o Renumber(entry.index, Len(first_parts), second_parts)
    ELSE first_parts \o second_parts

\* Mutant: the first half takes the larger share of an odd word count.
HalfPointCeil(words) == (Len(words) + 1) \div 2

HalfPoint(words) == Len(words) \div 2

\* Mutant: the line limit compared off by one.
WithinLimitOffByOne(text_with_lines, max_lines) == NumLines(text_with_lines) <= max_lines + 1

WithinLimit(text_with_lines, max_lines) == NumLines(text_with_lines) <= max_lines

\* Mutant: the guard against captions of fewer than 2 words removed.
TooFewWordsNever(words) == FALSE

TooFewWords(words) == Len(words) < 2

\* Mutant: the span is cut in the middle.
SplitTimeHalf(entry, first_len, total_len) ==
    format_time(parse_time(entry.start_time) + parse_time(entry.end_time), 2)

\* split_time formatted: start + duration * first_len / total_len.
SplitTime(entry, first_len, total_len) ==
    LET start_ms == parse_time(entry.start_time)
        end_ms   == parse_time(entry.end_time)
    IN  format_time(start_ms * total_len + (end_ms - start_ms) * first_len, total_len)

\* The two halves: the first keeps the parent's id and start, the second is
\* provisionally "<parent>_1" and keeps the parent's end.
FirstEntry(entry, split, first_half_words) ==
    SubtitleEntry(entry.index, entry.start_time, split, <<first_half_words>>)

\* Mutant: the second half starts at the parent's start instead of the split.
SecondEntryFromStart(entry, split, second_half_words) ==
    SubtitleEntry(Append(entry.index, 1), entry.start_time, entry.end_time,
                  <<second_half_words>>)

SecondEntry(entry, split, second_half_words) ==
    SubtitleEntry(Append(entry.index, 1), split, entry.end_time, <<second_half_words>>)

RECURSIVE split_subtitle_entry(_, _)
split_subtitle_entry(entry, max_lines) ==
    LET text_with_lines == split_long_subtitle_text(entry.text)
        words == TextWords(entry.text)
    IN  IF WithinLimit(text_with_lines, max_lines)
        THEN <<[entry EXCEPT !.text = text_with_lines]>>
        ELSE IF TooFewWords(words)
        THEN <<[entry EXCEPT !.text = text_with_lines]>>
        ELSE LET mid == HalfPoint(words)
                 first_half_words  == SubSeq(words, 1, mid)
                 second_half_words == SubSeq(words, mid + 1, Len(words))
                 first_len  == WordsLen(first_half_words)
                 second_len == WordsLen(second_half_words)
                 total_len  == first_len + second_len
             IN  IF total_len = 0
                 THEN <<[entry EXCEPT !.text = text_with_lines]>>
                 ELSE LET split == SplitTime(entry, first_len, total_len)
                      IN  JoinParts(entry,
                                    split_subtitle_entry(
                                        FirstEntry(entry, split, first_half_words), max_lines),
                                    split_subtitle_entry(
                                        SecondEntry(entry, split, second_half_words), max_lines))

\* The calls of split_subtitle_entry made for an entry, in call order: for
\* each call the number of words of its text, the number of words of the
\* caller's text (-1 for the outermost call), its depth, and whether it
\* went on to call itself on two halves.
RECURSIVE SplitCalls(_, _, _, _)
SplitCalls(entry, max_lines, parent_words, depth) ==
    LET text_with_lines == split_long_subtitle_text(entry.text)
        words == TextWords(entry.text)
        mid == HalfPoint(words)
        first_half_words  == SubSeq(words, 1, mid)
        second_half_words == SubSeq(words, mid + 1, Len(words))
        first_len == WordsLen(first_half_words)
        total_len == first_len + WordsLen(second_half_words)
        recursed == /\ ~WithinLimit(text_with_lines, max_lines)
                    /\ ~TooFewWords(words)
                    /\ total_len # 0
        call == [words |-> Len(words), parent_words |-> parent_words,
                 depth |-> depth, recursed |-> recursed]
    IN  IF ~recursed THEN <<call>>
        ELSE LET split == SplitTime(entry, first_len, total_len)
             IN  <<call>>
                 \o SplitCalls(FirstEntry(entry, split, first_half_words),
                               max_lines, Len(words), depth + 1)
                 \o SplitCalls(SecondEntry(entry, split, second_half_words),
                               max_lines, Len(words), depth + 1)

(***************************************************************************)
(* Transcript reconciler.  A transcript string is the list of its lines   *)
(* (str.split('\n')): <<"num", n>> a line of digits only, <<"time", s, e>> *)
(* a timing line "s --> e", <<"text", k, j>> the text of caption j of     *)
(* chunk k, <<"blank">> an empty line.  The empty string is one blank     *)
(* line.  Offsets and durations are in tenths of a millisecond.           *)
(***************************************************************************)
Num(n) == <<"num", n>>
Time(s, e) == <<"time", s, e>>
Text(k, j) == <<"text", k, j>>
Blank == <<"blank">>
IsBlank(line) == line[1] = "blank"

\* Mutant: the millisecond part truncated instead of rounded.
add_offset_truncating(ts, offset) ==
    LET total   == parse_time(ts) * 10 + offset
        hours   == total \div 36000000
        minutes == (total % 36000000) \div 600000
        seconds == total % 600000
        secs    == seconds \div 10000
        millis  == (seconds - secs * 10000) \div 10
    IN  <<hours, minutes, secs, millis>>

\* add_offset: the timestamp plus the offset, the millisecond part rounded;
\* a part rounded up to 1000 carries into the seconds field only.
add_offset(ts, offset) ==
    LET total   == parse_time(ts) * 10 + offset
        hours   == total \div 36000000
        minutes == (total % 36000000) \div 600000
        seconds == total % 600000
        secs    == seconds \div 10000
        millis  == RoundHalfEven(seconds - secs * 10000, 10)
    IN  IF millis >= 1000 THEN <<hours, minutes, secs + 1, 0>>
        ELSE <<hours, minutes, secs, millis>>

AdjustLine(line, offset, index_offset) ==
    IF line[1] = "num" THEN Num(line[2] + index_offset)
    ELSE IF line[1] = "time"
    THEN Time(add_offset(line[2], offset), add_offset(line[3], offset))
    ELSE line

adjust_srt_timings(srt_content, offset, index_offset) ==
    [i \in 1..Len(srt_content) |-> AdjustLine(srt_content[i], offset, index_offset)]

\* if offset > 0: transcript = adjust_srt_timings(transcript, offset, 0)
ApplyOffset(transcript, offset) ==
    IF offset > 0 THEN adjust_srt_timings(transcript, offset, 0) ELSE transcript

\* str.strip() on the list of lines: leading and trailing blank lines go.
RECURSIVE StripLeft(_)
StripLeft(ls) == IF ls # <<>> /\ IsBlank(Head(ls)) THEN StripLeft(Tail(ls)) ELSE ls
RECURSIVE StripRight(_)
StripRight(ls) ==
    IF ls # <<>> /\ IsBlank(ls[Len(ls)]) THEN StripRight(SubSeq(ls, 1, Len(ls) - 1)) ELSE ls
StripLines(ls) == StripRight(StripLeft(ls))

\* str.count('\n\n') of stripped lines: a run of k blank lines is k + 1
\* newlines, which hold (k + 1) \div 2 non-overlapping pairs.
RECURSIVE CountPairs(_, _, _)
CountPairs(ls, i, run) ==
    IF i > Len(ls) THEN 0
    ELSE IF IsBlank(ls[i]) THEN CountPairs(ls, i + 1, run + 1)
    ELSE (IF run > 0 THEN (run + 1) \div 2 ELSE 0) + CountPairs(ls, i + 1, 0)

\* Mutant: the caption count without the "+ 1".
subtitle_count_short(transcript) ==
    LET stripped == StripLines(transcript)
    IN  IF stripped = <<>> THEN 0 ELSE CountPairs(stripped, 1, 0)

subtitle_count(transcript) ==
    LET stripped == StripLines(transcript)
    IN  IF stripped = <<>> THEN 0 ELSE CountPairs(stripped, 1, 0) + 1

\* '\n\n'.join(parts) on lists of lines.
RECURSIVE JoinBlank(_)
JoinBlank(ts) ==
    IF ts = <<>> THEN <<Blank>>
    ELSE IF Len(ts) = 1 THEN ts[1]
    ELSE ts[1] \o <<Blank>> \o JoinBlank(Tail(ts))

\* Mutant: list.sort(key=chunk number, reverse=True).
RECURSIVE SortByChunkDescending(_)
SortByChunkDescending(rs) ==
    IF rs = <<>> THEN <<>>
    ELSE LET m == CHOOSE i \in 1..Len(rs) : \A j \in 1..Len(rs) : rs[i][1] >= rs[j][1]
         IN  <<rs[m]>> \o SortByChunkDescending(SubSeq(rs, 1, m - 1) \o SubSeq(rs, m + 1, Len(rs)))

\* list.sort(key=lambda x: x[0]) on a list of (chunk_num, transcript).
RECURSIVE SortByChunk(_)
SortByChunk(rs) ==
    IF rs = <<>> THEN <<>>
    ELSE LET m == CHOOSE i \in 1..Len(rs) :
                      /\ \A j \in 1..Len(rs) : rs[i][1] <= rs[j][1]
                      /\ \A j \in 1..(i - 1) : rs[j][1] # rs[i][1]
         IN  <<rs[m]>> \o SortByChunk(SubSeq(rs, 1, m - 1) \o SubSeq(rs, m + 1, Len(rs)))

\* The renumbering loop over the sorted successful transcripts.
RECURSIVE RenumberFrom(_, _, _)
RenumberFrom(sorted, i, index_offset) ==
    IF i > Len(sorted) THEN <<>>
    ELSE LET chunk_num  == sorted[i][1]
             transcript == sorted[i][2]
             adjusted   == IF chunk_num > 1 /\ index_offset > 0
                           THEN adjust_srt_timings(transcript, 0, index_offset)
                           ELSE transcript
         IN  <<adjusted>> \o RenumberFrom(sorted, i + 1, index_offset + subtitle_count(transcript))

\* Sort by chunk number, renumber, join with a blank line.
Combine(successful) == JoinBlank(RenumberFrom(SortByChunk(successful), 1, 0))

\* Mutant: the concurrent merge joins the sorted transcripts as they are.
CombineConcurrentUnnumbered(successful) ==
    LET sorted == SortByChunk(successful)
    IN  JoinBlank([i \in 1..Len(sorted) |-> sorted[i][2]])

\* The merge of the concurrent path: successful_results sorted by chunk
\* number, renumbered by the same loop, joined with a blank line.
CombineConcurrent(successful) == JoinBlank(RenumberFrom(SortByChunk(successful), 1, 0))

\* parse_srt on the list of lines: the blocks are the maximal runs of
\* non-blank lines; a block of fewer than 3 lines, or whose first line is
\* no integer or whose second line is no timing line, yields no entry.
RECURSIVE Blocks(_, _, _)
Blocks(ls, i, cur) ==
    IF i > Len(ls) THEN (IF cur # <<>> THEN <<cur>> ELSE <<>>)
    ELSE IF IsBlank(ls[i])
    THEN (IF cur # <<>> THEN <<cur>> ELSE <<>>) \o Blocks(ls, i + 1, <<>>)
    ELSE Blocks(ls, i + 1, Append(cur, ls[i]))

BlockEntry(lines) ==
    IF Len(lines) >= 3 /\ lines[1][1] = "num" /\ lines[2][1] = "time"
    THEN <<SubtitleEntry(<<lines[1][2]>>, lines[2][2], lines[2][3], SubSeq(lines, 3, Len(lines)))>>
    ELSE <<>>

parse_srt(srt_content) ==
    LET blocks == Blocks(srt_content, 1, <<>>)
    IN  Flatten([b \in 1..Len(blocks) |-> BlockEntry(blocks[b])])

\* f"{self.index}": an integer id prints as a line of digits, a derived id
\* "12_1" as a line that is no integer.
IndexLine(index) == IF Len(index) = 1 THEN Num(index[1]) ELSE <<"sub", index>>

\* Mutant: the entries are written without the line that separates them.
EntryLinesUnseparated(entry) ==
    <<IndexLine(entry.index), Time(entry.start_time, entry.end_time)>> \o entry.text

\* f.write(str(entry) + '\n'): index line, timing line, text, empty line.
EntryLines(entry) ==
    <<IndexLine(entry.index), Time(entry.start_time, entry.end_time)>> \o entry.text
        \o <<Blank>>

\* save_srt: the lines of the file written, the last one empty.
save_srt(entries) ==
    Flatten([i \in 1..Len(entries) |-> EntryLines(entries[i])]) \o <<Blank>>

(***************************************************************************)
(* Translation dispatcher and retranslation loop                           *)
(***************************************************************************)
BatchSize == 40
RetryBatchSize == 20
max_retries == 2

\* for entry in translated_entries: parts = split_subtitle_entry(entry, 2)
PostProcess(entries) ==
    [i \in 1..Len(entries) |-> split_subtitle_entry(entries[i], MaxLinesPerEntry)]

\* re.search(r'[А-Яа-яЁё]', text)
has_cyrillic(text) ==
    \E l \in 1..Len(text) : \E w \in 1..Len(text[l]) : text[l][w].cyr

\* Mutant: only the full batches are made.
MakeBatchesFullOnly(xs, size) ==
    [b \in 1..(Len(xs) \div size) |-> SubSeq(xs, (b - 1) * size + 1, b * size)]

\* for i in range(0, len(xs), size): xs[i:i + size]
MakeBatches(xs, size) ==
    [b \in 1..((Len(xs) + size - 1) \div size) |->
        SubSeq(xs, (b - 1) * size + 1, IF b * size < Len(xs) THEN b * size ELSE Len(xs))]

\* Mutant: the loop also ends when a round brought no progress.
LoopContinuesOnProgress(count, round, previous) ==
    count > 0 /\ round < max_retries /\ (round = 0 \/ count < previous)

\* while untranslated_count > 0 and retry_round < max_retries
LoopContinues(count, round, previous) == count > 0 /\ round < max_retries

\* The prompt tags a caption with its integer index.
Tag(entry) == entry.index[1]

\* translation_map: the reply lines "[tag] text" read in order, a later
\* line with the same tag overwriting an earlier one.
TranslationMap(lines) ==
    [t \in {lines[i][1] : i \in 1..Len(lines)} |->
        lines[CHOOSE i \in 1..Len(lines) :
                  /\ lines[i][1] = t
                  /\ \A j \in (i + 1)..Len(lines) : lines[j][1] # t][2]]

\* Mutant: a translation is accepted without the residue check.
AcceptedUnchecked(map, tag) == tag \in DOMAIN map /\ map[tag] # <<>>

\* if translated_text and not re.search(r'[А-Яа-яЁё]', translated_text)
Accepted(map, tag) == tag \in DOMAIN map /\ map[tag] # <<>> /\ ~has_cyrillic(map[tag])

TranslatedEntry(batch, p, text) ==
    SubtitleEntry(batch[p].index, batch[p].start_time, batch[p].end_time, text)

\* translate_batch_async: the response is <<"error">> (the request raised)
\* or <<"ok", lines>>, lines the "[tag] text" lines of the reply.
translate_batch_async(batch, response) ==
    IF response[1] = "error" THEN batch
    ELSE LET map == TranslationMap(response[2])
         IN  [p \in 1..Len(batch) |->
                 IF Accepted(map, Tag(batch[p]))
                 THEN TranslatedEntry(batch, p, map[Tag(batch[p])])
                 ELSE batch[p]]

\* sum(1 for e in entries if re.search(r'[А-Яа-яЁё]', e.text))
UntranslatedCount(entries) == Cardinality({i \in 1..Len(entries) : has_cyrillic(entries[i].text)})

\* Mutant: every caption is collected for the retry.
ToRetryAll(entries) == entries

\* to_retry = [e for e in translated_entries if re.search(r'[А-Яа-яЁё]', e.text)]
RECURSIVE ToRetry(_)
ToRetry(entries) ==
    IF entries = <<>> THEN <<>>
    ELSE (IF has_cyrillic(Head(entries).text) THEN <<Head(entries)>> ELSE <<>>)
             \o ToRetry(Tail(entries))

\* failed_indices = [e.index for e in translated_entries if re.search(...)]
FailedIndices(entries) ==
    LET residue == ToRetry(entries) IN [k \in 1..Len(residue) |-> residue[k].index]

\* The batch size of round r, the initial dispatch being round 0.
RoundBatchSize(r) == IF r = 0 THEN BatchSize ELSE RetryBatchSize

\* Mutant: nothing is entered in the map.
RetryMapEmpty(retried) == <<>>

\* retry_map: the clean entries of the retry results by index, a later
\* entry with the same index overwriting an earlier one.
RetryMap(retried) ==
    LET clean == {i \in 1..Len(retried) : ~has_cyrillic(retried[i].text)}
    IN  [x \in {retried[i].index : i \in clean} |->
            retried[CHOOSE i \in clean :
                        /\ retried[i].index = x
                        /\ \A j \in clean : j > i => retried[j].index # x]]

\* Mutant: a caption without an entry in the map is dropped from the stream.
RECURSIVE UpsertDropping(_, _)
UpsertDropping(entries, retry_map) ==
    IF entries = <<>> THEN <<>>
    ELSE (IF Head(entries).index \in DOMAIN retry_map
          THEN <<retry_map[Head(entries).index]>> ELSE <<>>)
             \o UpsertDropping(Tail(entries), retry_map)

\* updated_entries: the entry of the map where the index is a key, else the entry.
Upsert(entries, retry_map) ==
    [i \in 1..Len(entries) |->
        IF entries[i].index \in DOMAIN retry_map THEN retry_map[entries[i].index]
        ELSE entries[i]]

\* Mutant: the results are recombined last batch first.
RECURSIVE RecombineReversed(_)
RecombineReversed(batch_results) ==
    IF batch_results = <<>> THEN <<>>
    ELSE RecombineReversed(Tail(batch_results)) \o Head(batch_results)

\* Mutant: the splitter is applied to the results of every gather.
RecombineThenSplit(batch_results) == Flatten(PostProcess(Flatten(batch_results)))

\* for batch_result in results: translated_entries.extend(batch_result)
Recombine(batch_results) == Flatten(batch_results)

(***************************************************************************)
(* State                                                                   *)
(***************************************************************************)
VARIABLES
    stream,     \* splitter: the captions handed to the post-processing loop
    parts,      \* splitter: parts[i] is what split_subtitle_entry returned for stream[i]
    spc,        \* splitter: "start" before the loop, "done" after
    audio_paths,    \* reconciler: the number of chunk files
    durations,      \* reconciler: measured duration of chunks 1..n-1, in 0.1 ms
    reply,          \* reconciler: the transcript the service returned for each chunk
    sequential,     \* reconciler: the dispatch mode
    cache_dir,      \* reconciler: whether a cache directory was given
    cache,          \* reconciler: chunk_<k>_raw.srt, NoFile when absent
    offsets,        \* reconciler: the offsets list
    tpc,            \* reconciler: "start", "single", "seq", "par", "done", "raised"
    cur,            \* reconciler: the chunk the sequential loop is at
    attempt,        \* reconciler: 1 = first try, 2 = the retry of the except branch
    collected,      \* reconciler: all_transcripts / successful_results
    results,        \* reconciler: the outcome of each concurrent task
    completion,     \* reconciler: the order in which concurrent requests completed
    requests,       \* reconciler: external requests issued per chunk
    combined,       \* reconciler: the merged transcript returned
    russian_srt,    \* main: the caption file written from the parsed transcript
    entries,            \* translator: the parsed stream handed to translate_subtitles_async
    translated_entries, \* translator: the main stream
    tlpc,               \* translator: "start", "initial", "retry", "done"
    retry_round,        \* translator: the retry round, 0 during the initial dispatch
    untranslated_count, \* translator: captions of the main stream carrying residue
    to_retry,           \* translator: the captions sent in the current retry round
    tasks,              \* translator: the batches in flight, in dispatch order
    batch_results,      \* translator: what each task returned, NoResult while pending
    responses,          \* translator: what the service answered each task, NoResult while pending
    finished,           \* translator: the order in which the tasks completed
    gathered,           \* translator: the results of the last gather, recombined
    retry_map,          \* translator: the map built by the last retry round
    final_entries,      \* translator: the stream returned after post-processing
    output_srt,         \* main: the translated caption file written by save_srt
    file_size,      \* planner: os.path.getsize(audio_path), in KiB
    duration,       \* planner: get_audio_duration(audio_path), in tenths of a second
    chunk_duration, \* planner: the clamped chunk duration, in seconds, 0 before it is computed
    chunks,         \* planner: the chunk files written so far, each the interval it holds
    ppc             \* planner: "start", "cut", "done", "raised"

splitVars == <<stream, parts, spc>>
trInputs == <<audio_paths, durations, sequential, cache_dir>>
trVars == <<audio_paths, durations, reply, sequential, cache_dir, cache, offsets, tpc,
            cur, attempt, collected, results, completion, requests, combined, russian_srt>>
tlVars == <<entries, translated_entries, tlpc, retry_round, untranslated_count, to_retry,
            tasks, batch_results, responses, finished, gathered, retry_map, final_entries>>
planVars == <<file_size, duration, chunk_duration, chunks, ppc>>
vars == <<splitVars, trVars, tlVars, output_srt, planVars>>

\* Each specification runs one stage; the other stages' variables rest.
SplitIdle == stream = <<>> /\ parts = <<>> /\ spc = "idle"

PlanIdle ==
    file_size = 0 /\ duration = 0 /\ chunk_duration = 0 /\ chunks = <<>> /\ ppc = "idle"

\* The translated caption file before save_srt has written it.
NotWritten == [written |-> FALSE, entries |-> <<>>]

\* The source-language caption file before save_srt has written it.
NoRussianFile == [written |-> FALSE, content |-> <<>>]

TranslateIdle ==
    /\ entries = <<>> /\ translated_entries = <<>> /\ tlpc = "idle" /\ retry_round = 0
    /\ untranslated_count = 0 /\ to_retry = <<>> /\ tasks = <<>> /\ batch_results = <<>>
    /\ responses = <<>>
    /\ finished = <<>> /\ gathered = <<>> /\ retry_map = <<>> /\ final_entries = <<>>
    /\ output_srt = NotWritten

(***************************************************************************)
(* Reconciler inputs: 1..MaxChunks chunks, each reply (chosen when the     *)
(* request succeeds) a well-formed                                         *)
(* transcript of 0..MaxCaptions captions numbered from 1 and ending in a   *)
(* blank line; the second caption of a chunk carries a digits-only second  *)
(* text line, or lasts one millisecond.                                    *)
(***************************************************************************)
MaxChunks == 3
MaxCaptions == 2
NoFile == <<>>

RawStart(j) == <<0, j - 1, 58, 500>>
RawEnd(j) == <<0, j - 1, 59, 999>>

RawBlock(k, j) ==
    <<Num(j), Time(RawStart(j), RawEnd(j)), Text(k, j)>>
        \o (IF j = 2 THEN <<Num(2020)>> ELSE <<>>) \o <<Blank>>

RawTranscript(k, c) == Flatten([j \in 1..c |-> RawBlock(k, j)]) \o <<Blank>>

\* A transcript of two captions, the second lasting one millisecond.
BriefStart == <<0, 1, 58, 509>>
BriefEnd == <<0, 1, 58, 510>>

BriefTranscript(k) ==
    <<Num(1), Time(RawStart(1), RawEnd(1)), Text(k, 1), Blank,
      Num(2), Time(BriefStart, BriefEnd), Text(k, 2), Blank, Blank>>

\* What the service may return for chunk k.
Replies(k) == {RawTranscript(k, c) : c \in 0..MaxCaptions} \cup {BriefTranscript(k)}

\* The measured durations of m chunks: the two values alternate.
DurationLists(m) ==
    {[k \in 1..m |-> IF (k + p) % 2 = 0 THEN 9000005 ELSE 2999996] : p \in {0, 1}}

CacheStates(n) ==
    {[k \in 1..n |-> NoFile]}
        \cup {[k \in 1..n |-> IF k = h THEN RawTranscript(k, 1) ELSE NoFile] : h \in 1..n}

TranscribeIdle ==
    /\ audio_paths = 0 /\ durations = <<>> /\ reply = <<>> /\ sequential = TRUE
    /\ cache_dir = FALSE /\ cache = <<>> /\ offsets = <<>> /\ tpc = "idle" /\ cur = 0
    /\ attempt = 0 /\ collected = <<>> /\ results = <<>> /\ completion = <<>>
    /\ requests = <<>> /\ combined = NoFile /\ russian_srt = NoRussianFile

InitTranscribe ==
    /\ audio_paths \in 1..MaxChunks
    /\ durations \in DurationLists(audio_paths - 1)
    /\ reply = [k \in 1..audio_paths |-> NoFile]
    /\ sequential \in BOOLEAN
    /\ cache_dir \in (IF sequential THEN BOOLEAN ELSE {FALSE})
    /\ cache \in (IF cache_dir THEN CacheStates(audio_paths)
                  ELSE {[k \in 1..audio_paths |-> NoFile]})
    /\ offsets = <<>>
    /\ tpc = "start"
    /\ cur = 0
    /\ attempt = 0
    /\ collected = <<>>
    /\ results = <<>>
    /\ completion = <<>>
    /\ requests = [k \in 1..audio_paths |-> 0]
    /\ combined = NoFile
    /\ russian_srt = NoRussianFile
    /\ SplitIdle
    /\ TranslateIdle
    /\ PlanIdle

\* offsets = [0]; for each path but the last: offsets.append(offsets[-1] + duration)
RECURSIVE ComputeOffsets(_, _)
ComputeOffsets(durs, k) ==
    IF k = 1 THEN <<0>>
    ELSE LET before == ComputeOffsets(durs, k - 1)
         IN  Append(before, before[k - 1] + durs[k - 1])

\* Mutant: the stage returns normally also when no chunk succeeded.
FinishNeverRaises(successful) ==
    /\ tpc' = "done"
    /\ combined' = IF successful = <<>> THEN NoFile ELSE Combine(successful)

\* The tail of transcribe_audio_async once every chunk has its outcome.
Finish(successful) ==
    IF successful = <<>>
    THEN /\ tpc' = "raised"
         /\ combined' = NoFile
    ELSE /\ tpc' = "done"
         /\ combined' = Combine(successful)

\* The tail of the concurrent path once gather has returned.
FinishConcurrent(successful) ==
    IF successful = <<>>
    THEN /\ tpc' = "raised"
         /\ combined' = NoFile
    ELSE /\ tpc' = "done"
         /\ combined' = CombineConcurrent(successful)

\* Entry of transcribe_audio_async: the path is chosen, the offsets are
\* computed and, in concurrent mode, every task is created.
Begin ==
    /\ tpc = "start"
    /\ IF audio_paths = 1
       THEN /\ tpc' = "single"
            /\ UNCHANGED <<offsets, cur, attempt, results>>
       ELSE /\ offsets' = ComputeOffsets(durations, audio_paths)
            /\ IF sequential
               THEN tpc' = "seq" /\ cur' = 1 /\ attempt' = 1 /\ UNCHANGED results
               ELSE /\ tpc' = "par"
                    /\ results' = [k \in 1..audio_paths |-> <<"pending">>]
                    /\ UNCHANGED <<cur, attempt>>
    /\ UNCHANGED <<trInputs, russian_srt, reply, cache, collected, completion, requests, combined,
                   splitVars, tlVars, output_srt, planVars>>

\* One file: transcribe_audio_chunk without offset; an error propagates.
SingleChunk ==
    /\ tpc = "single"
    /\ requests' = [requests EXCEPT ![1] = @ + 1]
    /\ \/ \E t \in Replies(1) :
              /\ reply' = [reply EXCEPT ![1] = t]
              /\ tpc' = "done"
              /\ combined' = t
       \/ tpc' = "raised" /\ combined' = NoFile /\ UNCHANGED reply
    /\ UNCHANGED <<trInputs, russian_srt, cache, offsets, cur, attempt, collected, results,
                   completion, splitVars, tlVars, output_srt, planVars>>

\* Mutant: the transcript is cached after the shift.
CachePayloadShifted(transcript, offset) == ApplyOffset(transcript, offset)

\* f.write(transcript) before the timings are adjusted: the raw reply.
CachePayload(transcript, offset) == transcript

\* Mutant: a skipped chunk ends the loop.
SeqAdvanceStopOnSkip(successful) ==
    /\ collected' = successful
    /\ IF cur = audio_paths \/ successful = collected
       THEN Finish(successful) /\ UNCHANGED <<cur, attempt>>
       ELSE cur' = cur + 1 /\ attempt' = 1 /\ UNCHANGED <<tpc, combined>>

\* The sequential loop moves to the next chunk, or merges after the last.
SeqAdvance(successful) ==
    /\ collected' = successful
    /\ IF cur = audio_paths
       THEN Finish(successful) /\ UNCHANGED <<cur, attempt>>
       ELSE cur' = cur + 1 /\ attempt' = 1 /\ UNCHANGED <<tpc, combined>>

\* First try, the cache file exists: it is read, no request is issued.
SeqCached ==
    /\ tpc = "seq" /\ attempt = 1
    /\ cache_dir /\ cache[cur] # NoFile
    /\ SeqAdvance(Append(collected, <<cur, ApplyOffset(cache[cur], offsets[cur])>>))
    /\ UNCHANGED <<trInputs, russian_srt, reply, cache, offsets, results, completion, requests,
                   splitVars, tlVars, output_srt, planVars>>

\* First try, request succeeds: the raw reply is cached, then shifted.
SeqFirstOk ==
    /\ tpc = "seq" /\ attempt = 1
    /\ ~(cache_dir /\ cache[cur] # NoFile)
    /\ requests' = [requests EXCEPT ![cur] = @ + 1]
    /\ \E t \in Replies(cur) :
           /\ reply' = [reply EXCEPT ![cur] = t]
           /\ cache' = IF cache_dir
                       THEN [cache EXCEPT ![cur] = CachePayload(t, offsets[cur])]
                       ELSE cache
           /\ SeqAdvance(Append(collected, <<cur, ApplyOffset(t, offsets[cur])>>))
    /\ UNCHANGED <<trInputs, russian_srt, offsets, results, completion, splitVars, tlVars,
                   output_srt, planVars>>

\* First try, request fails: the except branch will retry.
SeqFirstFail ==
    /\ tpc = "seq" /\ attempt = 1
    /\ ~(cache_dir /\ cache[cur] # NoFile)
    /\ requests' = [requests EXCEPT ![cur] = @ + 1]
    /\ attempt' = 2
    /\ UNCHANGED <<trInputs, russian_srt, reply, cache, offsets, tpc, cur, collected, results,
                   completion, combined, splitVars, tlVars, output_srt, planVars>>

\* The retry is called without cache_dir: no cache read, no cache write.
SeqRetryOk ==
    /\ tpc = "seq" /\ attempt = 2
    /\ requests' = [requests EXCEPT ![cur] = @ + 1]
    /\ \E t \in Replies(cur) :
           /\ reply' = [reply EXCEPT ![cur] = t]
           /\ SeqAdvance(Append(collected, <<cur, ApplyOffset(t, offsets[cur])>>))
    /\ UNCHANGED <<trInputs, russian_srt, cache, offsets, results, completion, splitVars, tlVars,
                   output_srt, planVars>>

\* The retry fails too: the chunk is skipped.
SeqRetryFail ==
    /\ tpc = "seq" /\ attempt = 2
    /\ requests' = [requests EXCEPT ![cur] = @ + 1]
    /\ SeqAdvance(collected)
    /\ UNCHANGED <<trInputs, russian_srt, reply, cache, offsets, results, completion,
                   splitVars, tlVars, output_srt, planVars>>

\* Concurrent mode: the request of any pending task completes or fails
\* (the tasks are created without cache_dir).
ParComplete(k) ==
    /\ tpc = "par"
    /\ results[k] = <<"pending">>
    /\ requests' = [requests EXCEPT ![k] = @ + 1]
    /\ completion' = Append(completion, k)
    /\ \/ \E t \in Replies(k) :
              /\ reply' = [reply EXCEPT ![k] = t]
              /\ results' = [results EXCEPT ![k] = <<"ok", <<k, ApplyOffset(t, offsets[k])>>>>]
       \/ results' = [results EXCEPT ![k] = <<"exc">>] /\ UNCHANGED reply
    /\ UNCHANGED <<trInputs, russian_srt, cache, offsets, tpc, cur, attempt, collected, combined,
                   splitVars, tlVars, output_srt, planVars>>

\* Mutant: the results after the first exception are discarded.
RECURSIVE SuccessfulUntilException(_, _)
SuccessfulUntilException(res, i) ==
    IF i > Len(res) \/ res[i][1] # "ok" THEN <<>>
    ELSE <<res[i][2]>> \o SuccessfulUntilException(res, i + 1)

\* successful_results: the non-exception results in task order.
RECURSIVE Successful(_, _)
Successful(res, i) ==
    IF i > Len(res) THEN <<>>
    ELSE (IF res[i][1] = "ok" THEN <<res[i][2]>> ELSE <<>>) \o Successful(res, i + 1)

\* asyncio.gather(*tasks, return_exceptions=True) returns; the merge follows.
ParGather ==
    /\ tpc = "par"
    /\ \A k \in 1..audio_paths : results[k] # <<"pending">>
    /\ collected' = Successful(results, 1)
    /\ FinishConcurrent(Successful(results, 1))
    /\ UNCHANGED <<trInputs, russian_srt, reply, cache, offsets, cur, attempt, results,
                   completion, requests, splitVars, tlVars, output_srt, planVars>>

\* main: russian_entries = parse_srt(srt_content); save_srt(russian_entries, ...)
SaveRussian ==
    /\ tpc = "done"
    /\ ~russian_srt.written
    /\ russian_srt' = [written |-> TRUE, content |-> save_srt(parse_srt(combined))]
    /\ UNCHANGED <<trInputs, reply, cache, offsets, tpc, cur, attempt, collected, results,
                   completion, requests, combined, splitVars, tlVars, output_srt, planVars>>

NextTranscribe ==
    \/ Begin
    \/ SingleChunk
    \/ SeqCached
    \/ SeqFirstOk
    \/ SeqFirstFail
    \/ SeqRetryOk
    \/ SeqRetryFail
    \/ \E k \in 1..audio_paths : ParComplete(k)
    \/ ParGather
    \/ SaveRussian

SpecTranscribe == InitTranscribe /\ [][NextTranscribe]_vars

(***************************************************************************)
(* Claims about the transcript reconciler (checked under SpecTranscribe)   *)
(***************************************************************************)
Merged == parse_srt(combined)

\* The chunks whose transcript went into the merge.
SuccessfulChunks ==
    IF audio_paths = 1 THEN {1} ELSE {collected[i][1] : i \in 1..Len(collected)}

\* The transcripts that went into the merge, as obtained (time-shifted).
ObtainedTranscripts ==
    IF audio_paths = 1 THEN <<reply[1]>> ELSE [i \in 1..Len(collected) |-> collected[i][2]]

\* Chunk and position of a merged caption, read off its first text line.
ChunkOf(cap) == cap.text[1][2]
PosOf(cap) == cap.text[1][3]

\* The chunks that succeeded: a request for the chunk was answered, or its
\* cache file was read.
Succeeded(k) == reply[k] # NoFile \/ (cache_dir /\ cache[k] # NoFile)
Payload(k) == IF reply[k] # NoFile THEN reply[k] ELSE cache[k]

\* The captions of the raw transcript of chunk k.
RawCaptions(k) == parse_srt(Payload(k))

\* Sum of the measured durations of chunks 1..k-1.
DurationBefore(k) == SumSeq(SubSeq(durations, 1, k - 1))

Abs(x) == IF x < 0 THEN 0 - x ELSE x

\* C1: whenever the stage returns a merged transcript, its caption ids are
\* exactly 1..N in order, N being the sum of the caption counts of the
\* chunks that succeeded (either mode, whichever chunks failed).
C1_MergedIdsContiguous ==
    tpc = "done" =>
        LET merged == Merged
            obtained == ObtainedTranscripts
            N == SumSeq([i \in 1..Len(obtained) |-> Len(parse_srt(obtained[i]))])
        IN  /\ Len(merged) = N
            /\ \A i \in 1..Len(merged) : merged[i].index = <<i>>

C1_Witness ==
    /\ tpc = "done"
    /\ audio_paths = 3
    /\ SuccessfulChunks = {2, 3}
    /\ Len(parse_srt(collected[1][2])) = 2
    /\ Len(parse_srt(collected[2][2])) = 1
    /\ Len(Merged) = 3

\* C8: the offsets are fixed before the first request as the cumulative
\* measured durations and do not depend on any outcome; in the merged
\* stream each timestamp of a caption of chunk k is its raw timestamp plus
\* the durations of chunks 1..k-1, to the millisecond (within 0.5 ms).
C8_OffsetsCumulative ==
    /\ (audio_paths > 1 /\ tpc \in {"seq", "par", "done", "raised"}) =>
           /\ Len(offsets) = audio_paths
           /\ \A k \in 1..audio_paths : offsets[k] = DurationBefore(k)
    /\ tpc = "done" =>
           LET merged == Merged
           IN  \A i \in 1..Len(merged) :
                   LET k == ChunkOf(merged[i])
                       j == PosOf(merged[i])
                       raw == RawCaptions(k)[j]
                   IN  /\ Abs(parse_time(merged[i].start_time) * 10
                                - (parse_time(raw.start_time) * 10 + DurationBefore(k))) <= 5
                       /\ Abs(parse_time(merged[i].end_time) * 10
                                - (parse_time(raw.end_time) * 10 + DurationBefore(k))) <= 5

C8_Witness ==
    /\ tpc = "done"
    /\ audio_paths = 3
    /\ SuccessfulChunks = {1, 3}
    /\ LET merged == Merged
       IN  \E i \in 1..Len(merged) :
               /\ ChunkOf(merged[i]) = 3
               /\ parse_time(merged[i].start_time) * 10
                      # parse_time(RawStart(PosOf(merged[i]))) * 10
                            + durations[1] + durations[2]

\* C9: in concurrent mode, whatever the completion order, the merged
\* transcript holds the captions of the successful chunks in increasing
\* chunk ordinal (and in their own order within a chunk), so the completion
\* order does not show in the output.
C9_MergedInChunkOrder ==
    (tpc = "done" /\ audio_paths > 1 /\ ~sequential) =>
        LET merged == Merged
            tags == [i \in 1..Len(merged) |-> <<ChunkOf(merged[i]), PosOf(merged[i])>>]
        IN  /\ \A i \in 1..(Len(tags) - 1) :
                   \/ tags[i][1] < tags[i + 1][1]
                   \/ tags[i][1] = tags[i + 1][1] /\ tags[i][2] < tags[i + 1][2]
            /\ Range(tags)
                   = UNION {{<<k, j>> : j \in 1..Len(parse_srt(reply[k]))} :
                               k \in {c \in 1..audio_paths : results[c][1] = "ok"}}

C9_Witness ==
    /\ tpc = "done"
    /\ ~sequential
    /\ completion = <<3, 1, 2>>
    /\ results[1][1] = "ok" /\ results[2][1] = "exc" /\ results[3][1] = "ok"
    /\ LET merged == Merged
       IN  Len(merged) >= 3 /\ ChunkOf(merged[1]) = 1

\* C11: with more than one chunk, in both modes: the stage raises and
\* returns no transcript exactly when every chunk failed; otherwise it
\* returns normally and the merged transcript holds the captions of exactly
\* the chunks that succeeded.
C11_PartialFailureMerged ==
    (audio_paths > 1 /\ tpc \in {"done", "raised"}) =>
        LET ok == {k \in 1..audio_paths : Succeeded(k)}
        IN  /\ tpc = "raised" <=> ok = {}
            /\ tpc = "raised" => combined = NoFile
            /\ tpc = "done" =>
                   LET merged == Merged
                   IN  /\ {<<ChunkOf(merged[i]), PosOf(merged[i])>> : i \in 1..Len(merged)}
                              = UNION {{<<k, j>> : j \in 1..Len(parse_srt(Payload(k)))} :
                                          k \in ok}
                       /\ Len(merged) = SumSeq([k \in 1..audio_paths |->
                                                 IF k \in ok THEN Len(parse_srt(Payload(k)))
                                                 ELSE 0])

\* Three chunks in sequential mode: the second failed twice, the others
\* succeeded with captions, and the stage returned.
C11_Witness ==
    /\ tpc = "done"
    /\ audio_paths = 3
    /\ sequential
    /\ requests[2] = 2
    /\ ~Succeeded(2)
    /\ Succeeded(1) /\ Succeeded(3)
    /\ Len(Merged) >= 2

\* The step in which chunk k gets its outcome in sequential mode.
ChunkSettled(k) ==
    tpc = "seq" /\ cur = k /\ (cur' = k + 1 \/ tpc' \in {"done", "raised"})

\* The timestamps of a transcript, in order.
TimesOf(transcript) ==
    LET caps == parse_srt(transcript)
    IN  [i \in 1..Len(caps) |-> <<caps[i].start_time, caps[i].end_time>>]

\* C18: a chunk that has a cache file when it is processed with a cache
\* directory is not requested from the service, and the transcript taken
\* for it is the cached payload shifted by this run's offset of the chunk;
\* a cache file is only ever written with the raw reply of its own chunk,
\* so no cache file holds shifted timestamps.
C18_CacheReusedRaw ==
    [][\A k \in 1..audio_paths :
          /\ (cache_dir /\ cache[k] # NoFile /\ ChunkSettled(k)) =>
                 /\ requests' = requests /\ requests[k] = 0
                 /\ cache' = cache
                 /\ Len(collected') = Len(collected) + 1
                 /\ LET taken == collected'[Len(collected')]
                    IN  /\ taken[1] = k
                        /\ taken[2] = (IF offsets[k] > 0
                                       THEN adjust_srt_timings(cache[k], offsets[k], 0)
                                       ELSE cache[k])
                        /\ \A i \in 1..Len(parse_srt(cache[k])) :
                               Abs(parse_time(parse_srt(taken[2])[i].start_time) * 10
                                     - (parse_time(parse_srt(cache[k])[i].start_time) * 10
                                            + DurationBefore(k))) <= 5
          /\ cache'[k] # cache[k] =>
                 /\ cache_dir /\ cache[k] = NoFile
                 /\ cache'[k] = reply'[k]
                 /\ cache'[k] \in Replies(k)
                 /\ \A i \in 1..Len(TimesOf(cache'[k])) :
                        TimesOf(cache'[k])[i]
                            \in {<<RawStart(i), RawEnd(i)>>, <<BriefStart, BriefEnd>>}]_vars

\* Sequential run with a cache directory: chunk 1 was requested and its raw
\* reply cached, chunk 2 was read from its cache file and shifted.
C18_Witness ==
    /\ tpc = "done"
    /\ sequential /\ cache_dir
    /\ audio_paths >= 2
    /\ requests[1] = 1 /\ cache[1] = reply[1] /\ Len(parse_srt(cache[1])) >= 1
    /\ requests[2] = 0 /\ cache[2] # NoFile /\ reply[2] = NoFile
    /\ 2 \in SuccessfulChunks
    /\ \E i \in 1..Len(collected) :
          collected[i] = <<2, adjust_srt_timings(cache[2], offsets[2], 0)>>

\* C27: in sequential mode each chunk's transcription is requested at most
\* twice, one request at a time while the loop is at that chunk, the second
\* only after the first failed; a chunk whose two requests both failed is
\* left out and the loop goes on to the next chunk, so that when the stage
\* ends every chunk has been requested or read from the cache.
C27_SequentialRetryOnce ==
    [][(sequential /\ audio_paths > 1) =>
          /\ \A k \in 1..audio_paths :
                 /\ requests'[k] <= 2
                 /\ requests'[k] # requests[k] =>
                        tpc = "seq" /\ cur = k /\ requests'[k] = requests[k] + 1
                 /\ (requests[k] = 1 /\ requests'[k] = 2) =>
                        /\ attempt = 2
                        /\ reply[k] = NoFile
                        /\ k \notin SuccessfulChunks
                 /\ (ChunkSettled(k) /\ requests'[k] = 2 /\ reply'[k] = NoFile) =>
                        /\ collected' = collected
                        /\ k < audio_paths =>
                               tpc' = "seq" /\ cur' = k + 1 /\ attempt' = 1
          /\ tpc' \in {"done", "raised"} =>
                 \A k \in 1..audio_paths :
                     requests'[k] >= 1 \/ (cache_dir /\ cache[k] # NoFile)]_vars

\* Three chunks in sequential mode: the first failed twice and was left
\* out, the second succeeded on its retry, the third on its first request.
C27_Witness ==
    /\ tpc = "done"
    /\ sequential
    /\ audio_paths = 3
    /\ requests = <<2, 2, 1>>
    /\ reply[1] = NoFile /\ reply[2] # NoFile /\ reply[3] # NoFile
    /\ SuccessfulChunks = {2, 3}

\* C28: in concurrent mode every chunk's request is pending from the start,
\* the completion or failure of one request changes the outcome of no other
\* and leaves every other pending request able to complete, the merge
\* waits for the outcome of every chunk, each chunk having been requested
\* once, and every chunk that succeeded is collected and its captions are
\* in the merged output.
C28_ConcurrentSiblingsKept ==
    [][(~sequential /\ audio_paths > 1) =>
          /\ (tpc = "start" /\ tpc' = "par") =>
                 \A k \in 1..audio_paths : results'[k] = <<"pending">>
          /\ \A k \in 1..audio_paths :
                 (tpc = "par" /\ results'[k] # results[k]) =>
                     /\ results[k] = <<"pending">>
                     /\ \A j \in 1..audio_paths \ {k} :
                            /\ results'[j] = results[j]
                            /\ results[j] = <<"pending">> => (ENABLED ParComplete(j))'
          /\ tpc' \in {"done", "raised"} =>
                 /\ \A k \in 1..audio_paths :
                        results'[k] # <<"pending">> /\ requests'[k] = 1
                 /\ {collected'[i][1] : i \in 1..Len(collected')}
                        = {k \in 1..audio_paths : results'[k][1] = "ok"}
          /\ tpc' = "done" =>
                 \A k \in 1..audio_paths :
                     (results'[k][1] = "ok" /\ Len(parse_srt(reply'[k])) > 0) =>
                         \E i \in 1..Len(parse_srt(combined')) :
                             ChunkOf(parse_srt(combined')[i]) = k]_vars

\* Three chunks in concurrent mode: the request of the second failed
\* first, the first and the third completed after it and their captions
\* are in the merged output.
C28_Witness ==
    /\ tpc = "done"
    /\ ~sequential
    /\ audio_paths = 3
    /\ completion[1] = 2
    /\ results[2] = <<"exc">>
    /\ results[1][1] = "ok" /\ results[3][1] = "ok"
    /\ Len(parse_srt(reply[1])) > 0 /\ Len(parse_srt(reply[3])) > 0
    /\ {ChunkOf(parse_srt(combined)[i]) : i \in 1..Len(parse_srt(combined))} = {1, 3}

\* C29: on every path (one file, sequential, concurrent) a chunk is given
\* up, dropped from the merge or its error raised out of the stage, only
\* after its request has failed and one retry of it has failed too: when
\* the stage has ended, every chunk without a transcript was requested
\* twice.
C29_RetryOnEveryPath ==
    tpc \in {"done", "raised"} =>
        \A k \in 1..audio_paths : ~Succeeded(k) => requests[k] = 2

\* C31: for the caption-file payload the stage returned (blocks of an
\* index line, a timing line and one or more text lines), the file that
\* save_srt writes from the parsed entries parses again to the same number
\* of entries with the same (id, start, end, text) in the same order, and
\* these are the blocks of the payload, one entry per block.
C31_ParseSaveRoundTrip ==
    russian_srt.written =>
        LET first == parse_srt(combined)
            second == parse_srt(russian_srt.content)
            blocks == Blocks(combined, 1, <<>>)
        IN  /\ second = first
            /\ Len(first) = Len(blocks)
            /\ \A b \in 1..Len(blocks) :
                   /\ <<Num(first[b].index[1]), Time(first[b].start_time, first[b].end_time)>>
                          = SubSeq(blocks[b], 1, 2)
                   /\ first[b].text = SubSeq(blocks[b], 3, Len(blocks[b]))

\* A merged payload of four captions, two of them with a second text line
\* of digits, was parsed, written and parsed again.
C31_Witness ==
    /\ russian_srt.written
    /\ Len(parse_srt(combined)) = 4
    /\ Len(parse_srt(russian_srt.content)) = 4
    /\ Cardinality({i \in 1..4 : Len(parse_srt(russian_srt.content)[i].text) = 2}) = 2
    /\ russian_srt.content # combined

\* Whether every caption of a transcript has start < end and no caption
\* starts before the one it follows.
TimesOrdered(transcript) ==
    LET caps == parse_srt(transcript)
    IN  /\ \A i \in 1..Len(caps) :
               parse_time(caps[i].start_time) < parse_time(caps[i].end_time)
        /\ \A i \in 1..(Len(caps) - 1) :
               parse_time(caps[i].start_time) <= parse_time(caps[i + 1].start_time)

\* C32: if every raw chunk transcript has start < end for each caption and
\* non-decreasing start between consecutive captions, then every caption
\* of the merged stream has start < end, and consecutive captions of the
\* same source chunk have non-decreasing start.
C32_MergedTimesMonotone ==
    (tpc = "done" /\ \A k \in SuccessfulChunks : TimesOrdered(Payload(k))) =>
        LET merged == Merged
        IN  /\ \A i \in 1..Len(merged) :
                   parse_time(merged[i].start_time) < parse_time(merged[i].end_time)
            /\ \A i \in 1..(Len(merged) - 1) :
                   ChunkOf(merged[i]) = ChunkOf(merged[i + 1]) =>
                       parse_time(merged[i].start_time)
                           <= parse_time(merged[i + 1].start_time)

\* C33: reconciliation changes only index lines and timing lines: every
\* caption of the merged stream carries the text lines of the raw caption
\* it comes from, unchanged, a text line made of digits only included.
C33_TextLinesUntouched ==
    tpc = "done" =>
        LET merged == Merged
        IN  \A i \in 1..Len(merged) :
                merged[i].text = RawCaptions(ChunkOf(merged[i]))[PosOf(merged[i])].text

\* The chunks of a set in ascending order.
RECURSIVE Ascending(_)
Ascending(S) ==
    IF S = {} THEN <<>>
    ELSE LET m == CHOOSE x \in S : \A y \in S : x <= y
         IN  <<m>> \o Ascending(S \ {m})

\* What either mode has to merge, given the successful chunks and their raw
\* transcripts: each raw transcript shifted by the offset of its chunk.
MergeInputs ==
    LET chunk == Ascending(SuccessfulChunks)
    IN  [i \in 1..Len(chunk) |-> <<chunk[i], ApplyOffset(Payload(chunk[i]), offsets[chunk[i]])>>]

\* C36: for the same chunk list, the same set of successful chunks and the
\* same raw transcript per chunk, sequential mode and concurrent mode return
\* the same merged transcript: the transcript returned in either mode is
\* what the merge of the sequential path and the merge of the concurrent
\* path each make of those chunks and transcripts.
C36_ModesMergeAlike ==
    (audio_paths > 1 /\ tpc = "done") =>
        LET inputs == MergeInputs
        IN  /\ combined = Combine(inputs)
            /\ combined = CombineConcurrent(inputs)

\* A concurrent run of two chunks completed in the order 2, 1, both
\* answered with two captions.
C36_Witness ==
    /\ tpc = "done"
    /\ ~sequential
    /\ audio_paths = 2
    /\ completion = <<2, 1>>
    /\ SuccessfulChunks = {1, 2}
    /\ Payload(1) = RawTranscript(1, 2)
    /\ Payload(2) = BriefTranscript(2)
    /\ Len(Merged) = 4

\* C35: after a sequential run with a cache directory, every chunk whose
\* transcription succeeded, on the first attempt or on the retry, has its
\* raw transcript in the cache, so that a repeated run requests none of them.
C35_SucceededChunksCached ==
    (audio_paths > 1 /\ sequential /\ cache_dir /\ tpc \in {"done", "raised"}) =>
        \A k \in SuccessfulChunks :
            /\ cache[k] # NoFile
            /\ reply[k] # NoFile => cache[k] = reply[k]

\* HH:MM:SS,mmm with minutes and seconds in 00..59, milliseconds in 000..999.
WellFormedTime(ts) ==
    /\ ts[1] >= 0
    /\ ts[2] \in 0..59
    /\ ts[3] \in 0..59
    /\ ts[4] \in 0..999

\* C37: every timestamp the reconciler writes for a well-formed raw
\* timestamp and a non-negative offset is well-formed: minutes and seconds
\* in 00..59 and milliseconds in 000..999.
C37_TimestampsWellFormed ==
    (tpc = "done"
        /\ \A k \in SuccessfulChunks :
               \A i \in 1..Len(RawCaptions(k)) :
                   /\ WellFormedTime(RawCaptions(k)[i].start_time)
                   /\ WellFormedTime(RawCaptions(k)[i].end_time)) =>
        LET merged == Merged
        IN  \A i \in 1..Len(merged) :
                /\ WellFormedTime(merged[i].start_time)
                /\ WellFormedTime(merged[i].end_time)

(***************************************************************************)
(* Splitter inputs: a first caption whose text is any token string over    *)
(* two word lengths and the newline, the last token a word (parse_srt      *)
(* strips the block), optionally followed by a second caption.             *)
(***************************************************************************)
MaxTokens == 6
Tokens == {"nl", "short", "long"}
TokenLen(tok) == IF tok = "short" THEN 20 ELSE 46
SplitSpans == { << <<0, 0, 10, 0>>, <<0, 0, 20, 0>> >>,
                << <<0, 0, 59, 998>>, <<0, 1, 0, 1>> >>,
                << <<0, 59, 59, 999>>, <<1, 0, 0, 0>> >> }

Word(i, n) == [id |-> i, n |-> n, cyr |-> FALSE]

RECURSIVE TextOfTokens(_, _, _, _)
TextOfTokens(toks, i, lines, line) ==
    IF i > Len(toks) THEN Append(lines, line)
    ELSE IF toks[i] = "nl" THEN TextOfTokens(toks, i + 1, Append(lines, line), <<>>)
    ELSE TextOfTokens(toks, i + 1, lines, Append(line, Word(i, TokenLen(toks[i]))))

TokenStrings ==
    UNION {{t \in [1..k -> Tokens] : t[k] # "nl"} : k \in 1..MaxTokens}

FirstCaptions ==
    {SubtitleEntry(<<12>>, span[1], span[2], TextOfTokens(t, 1, <<>>, <<>>)) :
        span \in SplitSpans, t \in TokenStrings}

SecondCaptions ==
    {SubtitleEntry(<<K>>, <<1, 0, 0, 0>>, <<1, 0, 4, 0>>, TextOfTokens(t, 1, <<>>, <<>>)) :
        K \in {12, 13}, t \in {<<"short">>, <<"long", "long", "long">>}}

SplitStreams ==
    {<<c>> : c \in FirstCaptions} \cup {<<c, d>> : c \in FirstCaptions, d \in SecondCaptions}

InitSplit ==
    /\ stream \in SplitStreams
    /\ parts = <<>>
    /\ spc = "start"
    /\ TranscribeIdle
    /\ TranslateIdle
    /\ PlanIdle

DoSplit ==
    /\ spc = "start"
    /\ parts' = PostProcess(stream)
    /\ spc' = "done"
    /\ UNCHANGED <<stream, trVars, tlVars, output_srt, planVars>>

FinalEntries == Flatten(parts)

NextSplit == DoSplit

SpecSplit == InitSplit /\ [][NextSplit]_vars

(***************************************************************************)
(* Claims about the segment splitter (checked under SpecSplit)             *)
(***************************************************************************)
IdsDistinct(es) ==
    \A i, j \in 1..Len(es) : i # j => es[i].index # es[j].index

\* C5: the ordered leaves of every caption cover exactly the caption's span:
\* the first leaf starts where the caption starts, the last leaf ends where
\* it ends, and each leaf ends where the next one starts.
C5_LeavesCoverSpan ==
    spc = "done" =>
        \A c \in 1..Len(stream) :
            /\ Len(parts[c]) >= 1
            /\ parts[c][1].start_time = stream[c].start_time
            /\ parts[c][Len(parts[c])].end_time = stream[c].end_time
            /\ \A i \in 1..(Len(parts[c]) - 1) :
                   parts[c][i].end_time = parts[c][i + 1].start_time

C5_Witness ==
    /\ spc = "done"
    /\ Len(parts[1]) >= 4
    /\ parts[1][2].end_time = parts[1][3].start_time
    /\ parts[1][2].start_time # parts[1][3].start_time

\* C6: with max_lines = 2 every leaf has at most 2 display lines, unless
\* it was accepted by the guard for having fewer than 2 words.
C6_LeavesWithinLineLimit ==
    spc = "done" =>
        \A c \in 1..Len(stream) : \A i \in 1..Len(parts[c]) :
            \/ NumLines(parts[c][i].text) <= 2
            \/ Len(TextWords(parts[c][i].text)) < 2

C6_Witness ==
    /\ spc = "done"
    /\ NumLines(split_long_subtitle_text(stream[1].text)) >= 5
    /\ Len(parts[1]) >= 3
    /\ \E i \in 1..Len(parts[1]) : NumLines(parts[1][i].text) = 2

\* C7: when a caption with id K becomes M > 1 leaves, their ids from left
\* to right are K, K_1, ..., K_(M-1); hence the ids of the final stream are
\* pairwise distinct when the ids of the input stream are.
C7_LeafIdsSequential ==
    spc = "done" =>
        /\ \A c \in 1..Len(stream) :
               Len(parts[c]) > 1 =>
                   \A i \in 1..Len(parts[c]) :
                       parts[c][i].index =
                           IF i = 1 THEN stream[c].index ELSE Append(stream[c].index, i - 1)
        /\ IdsDistinct(stream) => IdsDistinct(FinalEntries)

C7_Witness ==
    /\ spc = "done"
    /\ Len(stream) = 2
    /\ IdsDistinct(stream)
    /\ Len(stream[1].text) = 1
    /\ Len(TextWords(stream[1].text)) = 5
    /\ Len(parts[1]) = 3
    /\ parts[1][3].index = <<12, 2>>
    /\ Len(parts[2]) = 2


\* Characters of the words joined by single spaces.
JoinedLen(ws) == SumSeq([i \in 1..Len(ws) |-> ws[i].n]) + Len(ws) - 1

\* The number of leading leaves that hold the first count words.
LeavesHolding(leaves, count) ==
    CHOOSE j \in 0..Len(leaves) :
        SumSeq([i \in 1..j |-> Len(TextWords(leaves[i].text))]) = count

\* Whether the split point between the leaves of the two halves of a
\* caption of the given words and span, and of every half that was split
\* again, is start + duration * len(first text) / (len(first text) +
\* len(second text)) to the nearest millisecond.
RECURSIVE SplitPointsProportional(_, _, _, _)
SplitPointsProportional(words, start_ms, end_ms, leaves) ==
    Len(leaves) > 1 =>
        LET mid == Len(words) \div 2
            first_words == SubSeq(words, 1, mid)
            second_words == SubSeq(words, mid + 1, Len(words))
            first_len == JoinedLen(first_words)
            total_len == first_len + JoinedLen(second_words)
            j == LeavesHolding(leaves, mid)
            split_ms == parse_time(leaves[j].end_time)
            error == split_ms * total_len
                         - (start_ms * total_len + (end_ms - start_ms) * first_len)
        IN  /\ j >= 1 /\ j < Len(leaves)
            /\ leaves[j + 1].start_time = leaves[j].end_time
            /\ 2 * Abs(error) <= total_len
            /\ SplitPointsProportional(first_words, start_ms, split_ms, SubSeq(leaves, 1, j))
            /\ SplitPointsProportional(second_words, split_ms, end_ms,
                                       SubSeq(leaves, j + 1, Len(leaves)))

\* C20: when split_subtitle_entry splits a caption, at every level, the
\* split point is start + duration * len(first_half_text) /
\* (len(first_half_text) + len(second_half_text)) rounded to the
\* millisecond, the lengths being the character counts of the halves'
\* space-joined words.
C20_SplitPointProportional ==
    spc = "done" =>
        \A c \in 1..Len(stream) :
            SplitPointsProportional(TextWords(stream[c].text),
                                    parse_time(stream[c].start_time),
                                    parse_time(stream[c].end_time), parts[c])

\* A caption of three words was split after the first: the split point is
\* neither the middle of the span nor a third of it.
C20_Witness ==
    /\ spc = "done"
    /\ Len(TextWords(stream[1].text)) = 3
    /\ Len(parts[1]) >= 2
    /\ LET start_ms == parse_time(stream[1].start_time)
           end_ms == parse_time(stream[1].end_time)
           split_ms == parse_time(parts[1][1].end_time)
       IN  /\ parts[1][2].start_time = parts[1][1].end_time
           /\ Abs(2 * split_ms - (start_ms + end_ms)) > 2
           /\ Abs(3 * split_ms - (2 * start_ms + end_ms)) > 3
           /\ split_ms > start_ms /\ split_ms < end_ms

\* The words of a list of leaves read left to right, line by line.
LeafWords(leaves) == Flatten([i \in 1..Len(leaves) |-> TextWords(leaves[i].text)])

\* Whether the leaves of a caption of the given words fall into the leaves
\* of a first half holding the first floor(n/2) words and the leaves of a
\* second half holding the rest, and so on in every half split again.
RECURSIVE HalvesByFloor(_, _)
HalvesByFloor(words, leaves) ==
    Len(leaves) > 1 =>
        LET n == Len(words)
            first_words == SubSeq(words, 1, n \div 2)
            second_words == SubSeq(words, n \div 2 + 1, n)
        IN  /\ n >= 2
            /\ \E j \in 1..(Len(leaves) - 1) :
                   /\ LeafWords(SubSeq(leaves, 1, j)) = first_words
                   /\ LeafWords(SubSeq(leaves, j + 1, Len(leaves))) = second_words
                   /\ HalvesByFloor(first_words, SubSeq(leaves, 1, j))
                   /\ HalvesByFloor(second_words, SubSeq(leaves, j + 1, Len(leaves)))

\* C21: at each split of a caption with n >= 2 words the first half gets
\* the first floor(n/2) words and the second half the rest; the words of
\* the leaves read left to right, line by line, are exactly the word
\* sequence of the input text (none lost, duplicated or reordered), and
\* every line of a leaf holds whole words, a wrapped leaf having no empty
\* line.
C21_WordsPreserved ==
    spc = "done" =>
        \A c \in 1..Len(stream) :
            LET words == TextWords(stream[c].text)
            IN  /\ LeafWords(parts[c]) = words
                /\ HalvesByFloor(words, parts[c])
                /\ \A i \in 1..Len(parts[c]) :
                       /\ Range(TextWords(parts[c][i].text)) \subseteq Range(words)
                       /\ TextLen(parts[c][i].text) > MaxCharsPerLine =>
                              \A l \in 1..Len(parts[c][i].text) : parts[c][i].text[l] # <<>>

\* A one-line caption of five words became the leaves of two, one and two
\* words, the first and the last wrapped between their words.
C21_Witness ==
    /\ spc = "done"
    /\ Len(stream[1].text) = 1
    /\ Len(TextWords(stream[1].text)) = 5
    /\ Len(parts[1]) = 3
    /\ Len(TextWords(parts[1][1].text)) = 2
    /\ Len(TextWords(parts[1][2].text)) = 1
    /\ NumLines(parts[1][3].text) = 2
    /\ LeafWords(parts[1]) = TextWords(stream[1].text)

\* C22: for every input caption with start < end, every leaf produced by
\* split_subtitle_entry, at any depth and with the split time formatted to
\* the millisecond, has start < end.
C22_LeavesHavePositiveSpan ==
    spc = "done" =>
        \A c \in 1..Len(stream) :
            parse_time(stream[c].start_time) < parse_time(stream[c].end_time) =>
                \A i \in 1..Len(parts[c]) :
                    parse_time(parts[c][i].start_time) < parse_time(parts[c][i].end_time)

\* C23: split_subtitle_entry terminates on every caption: every recursive
\* call receives strictly fewer words than its caller, a call on a caption
\* of fewer than 2 words makes no further call, so the depth of the calls
\* is bounded by the number of words, and the calls that return a leaf are
\* as many as the leaves returned.
C23_RecursionDescends ==
    spc = "done" =>
        \A c \in 1..Len(stream) :
            LET calls == SplitCalls(stream[c], MaxLinesPerEntry, -1, 0)
            IN  /\ \A k \in 1..Len(calls) :
                       /\ calls[k].parent_words # -1 =>
                              calls[k].words < calls[k].parent_words
                       /\ calls[k].words < 2 => ~calls[k].recursed
                       /\ calls[k].depth <= Len(TextWords(stream[c].text))
                /\ Cardinality({k \in 1..Len(calls) : ~calls[k].recursed}) = Len(parts[c])

\* A caption of one word on its third line was returned as it is by the
\* guard, and a caption of three words was split by calls on one word and
\* on two words.
C23_Witness ==
    /\ spc = "done"
    /\ Len(stream) = 2
    /\ Len(TextWords(stream[1].text)) = 1
    /\ NumLines(stream[1].text) = 3
    /\ parts[1] = <<stream[1]>>
    /\ LET calls == SplitCalls(stream[2], MaxLinesPerEntry, -1, 0)
       IN  /\ Len(calls) = 3
           /\ calls[1].recursed
           /\ calls[2].words = 1 /\ calls[2].parent_words = 3
           /\ calls[3].words = 2 /\ calls[3].parent_words = 3
    /\ Len(parts[2]) = 2

(***************************************************************************)
(* Translator inputs: parsed streams of 0..MaxEntries captions, short ones *)
(* and ones around the batch size.  parse_srt takes the ids as they stand  *)
(* in the file, so the last caption may repeat the id of the first; a      *)
(* caption's source text is Russian, except that the last caption may be   *)
(* written in Latin letters.  Each request either raises, or is answered   *)
(* in full, or is answered with residue for the first caption of the batch *)
(* and no line for the last, or is answered in full and then with a second *)
(* line, of another wording, for the first caption, or is answered in full *)
(* and then with a line tagged with an id that is not in the batch (the id *)
(* of a caption outside the batch, or an id no caption has).               *)
(***************************************************************************)
MaxEntries == 42
NoResult == <<>>
Shapes == {"clean", "partial", "repeated", "foreign", "error"}

StreamSizes == {n \in 0..MaxEntries : n <= 3 \/ n >= BatchSize}

\* The source text of caption i: one word, except that caption 1 is long
\* enough to need three lines.
SourceText(i, latin) ==
    IF i = 1 THEN <<[w \in 1..3 |-> [id |-> 3000 + w, n |-> 30, cyr |-> ~latin]]>>
    ELSE <<<<[id |-> i, n |-> 6, cyr |-> ~latin]>>>>

\* What the service answers for the caption tagged tag in round r: the
\* translation of caption 1 is long enough to need three lines.
CleanText(tag, r) ==
    IF tag = 1 THEN <<[w \in 1..3 |-> Word(1000 + 100 * r + w, 30)]>>
    ELSE <<<<Word(100 * (r + 1) + tag, 8)>>>>

\* Another wording of the translation.
OtherText(tag, r) == <<<<Word(100 * (r + 1) + tag, 9)>>>>

ResidueText(tag, r) == <<<<[id |-> 100 * (r + 1) + tag, n |-> 8, cyr |-> TRUE]>>>>

IdLists(n) ==
    {[i \in 1..n |-> <<i>>]} \cup {[i \in 1..n |-> IF i = n THEN <<1>> ELSE <<i>>]}

TranslateStreams ==
    UNION {{[i \in 1..n |->
                SubtitleEntry(ids[i], <<0, i, 0, 0>>, <<0, i, 0, 800>>,
                              SourceText(i, latin /\ i = n))] :
               ids \in IdLists(n), latin \in BOOLEAN} : n \in StreamSizes}

ReplyLine(batch, p, text) == <<Tag(batch[p]), text>>

\* An id no caption of a stream has.
UnknownTag == MaxEntries + 1

\* The least id that is not in the batch.
ForeignTag(batch) ==
    LET others == ({Tag(entries[i]) : i \in 1..Len(entries)} \cup {UnknownTag})
                      \ {Tag(batch[p]) : p \in 1..Len(batch)}
    IN  CHOOSE t \in others : \A u \in others : t <= u

Response(batch, shape, r) ==
    IF shape = "error" THEN <<"error">>
    ELSE IF shape = "clean"
    THEN <<"ok", [p \in 1..Len(batch) |->
                     ReplyLine(batch, p, CleanText(Tag(batch[p]), r))]>>
    ELSE IF shape = "repeated"
    THEN <<"ok", [p \in 1..Len(batch) |->
                     ReplyLine(batch, p, CleanText(Tag(batch[p]), r))]
                    \o <<ReplyLine(batch, 1, OtherText(Tag(batch[1]), r))>> >>
    ELSE IF shape = "foreign"
    THEN <<"ok", [p \in 1..Len(batch) |->
                     ReplyLine(batch, p, CleanText(Tag(batch[p]), r))]
                    \o <<<<ForeignTag(batch), OtherText(ForeignTag(batch), r)>>>> >>
    ELSE <<"ok", [p \in 1..(IF Len(batch) = 1 THEN 1 ELSE Len(batch) - 1) |->
                     ReplyLine(batch, p, IF p = 1 THEN ResidueText(Tag(batch[p]), r)
                                         ELSE CleanText(Tag(batch[p]), r))]>>

InitTranslate ==
    /\ entries \in TranslateStreams
    /\ translated_entries = <<>>
    /\ tlpc = "start"
    /\ retry_round = 0
    /\ untranslated_count = 0
    /\ to_retry = <<>>
    /\ tasks = <<>>
    /\ batch_results = <<>>
    /\ responses = <<>>
    /\ finished = <<>>
    /\ gathered = <<>>
    /\ retry_map = <<>>
    /\ final_entries = <<>>
    /\ output_srt = NotWritten
    /\ SplitIdle
    /\ TranscribeIdle
    /\ PlanIdle

\* tasks.append(translate_batch_async(batch, ...)) for each batch of 40
TlStart ==
    /\ tlpc = "start"
    /\ tasks' = MakeBatches(entries, BatchSize)
    /\ batch_results' = [b \in 1..Len(tasks') |-> NoResult]
    /\ responses' = [b \in 1..Len(tasks') |-> NoResult]
    /\ tlpc' = "initial"
    /\ UNCHANGED <<entries, output_srt, translated_entries, retry_round,
                   untranslated_count, to_retry,
                   finished, gathered, retry_map, final_entries, splitVars, trVars, planVars>>

\* One request of the current gather completes; the tasks complete in any order.
TlBatchDone(b) ==
    /\ tlpc \in {"initial", "retry"}
    /\ batch_results[b] = NoResult
    /\ \E shape \in Shapes :
          /\ responses' = [responses EXCEPT ![b] = Response(tasks[b], shape, retry_round)]
          /\ batch_results' =
                 [batch_results EXCEPT ![b] = translate_batch_async(tasks[b], responses'[b])]
    /\ finished' = Append(finished, b)
    /\ UNCHANGED <<entries, output_srt, translated_entries, tlpc, retry_round, untranslated_count,
                   to_retry, tasks, gathered, retry_map, final_entries, splitVars, trVars,
                   planVars>>

AllReturned == \A b \in 1..Len(tasks) : batch_results[b] # NoResult

\* The quality check and the head of the while loop: another retry round is
\* launched, or the loop ends and the post-processing runs.
AfterGather(updated) ==
    LET count == UntranslatedCount(updated)
    IN  /\ translated_entries' = updated
        /\ untranslated_count' = count
        /\ IF LoopContinues(count, retry_round, untranslated_count)
           THEN /\ retry_round' = retry_round + 1
                /\ to_retry' = ToRetry(updated)
                /\ tasks' = MakeBatches(to_retry', RetryBatchSize)
                /\ batch_results' = [b \in 1..Len(tasks') |-> NoResult]
                /\ responses' = [b \in 1..Len(tasks') |-> NoResult]
                /\ finished' = <<>>
                /\ tlpc' = "retry"
                /\ UNCHANGED final_entries
           ELSE /\ tlpc' = "done"
                /\ final_entries' = Flatten(PostProcess(updated))
                /\ UNCHANGED <<retry_round, to_retry, tasks, batch_results, responses,
                               finished>>

\* results = await asyncio.gather(*tasks); translated_entries.extend(batch_result)
TlGatherInitial ==
    /\ tlpc = "initial"
    /\ AllReturned
    /\ gathered' = Recombine(batch_results)
    /\ AfterGather(gathered')
    /\ UNCHANGED <<entries, output_srt, retry_map, splitVars, trVars, planVars>>

\* retry_results = await asyncio.gather(*retry_tasks); retry_map; updated_entries
TlGatherRetry ==
    /\ tlpc = "retry"
    /\ AllReturned
    /\ gathered' = Recombine(batch_results)
    /\ retry_map' = RetryMap(gathered')
    /\ AfterGather(Upsert(translated_entries, retry_map'))
    /\ UNCHANGED <<entries, output_srt, splitVars, trVars, planVars>>

\* main: save_srt(translated_entries, str(output_srt)) once
\* translate_subtitles has returned.
TlSave ==
    /\ tlpc = "done"
    /\ ~output_srt.written
    /\ output_srt' = [written |-> TRUE, entries |-> final_entries]
    /\ UNCHANGED <<tlVars, splitVars, trVars, planVars>>

NextTranslate ==
    \/ TlStart
    \/ \E b \in 1..Len(tasks) : TlBatchDone(b)
    \/ TlGatherInitial
    \/ TlGatherRetry
    \/ TlSave

SpecTranslate == InitTranslate /\ [][NextTranslate]_vars

(***************************************************************************)
(* Claims about the translator (checked under SpecTranslate)               *)
(***************************************************************************)
\* The step that gathers the initial dispatch, and the one that gathers a retry round.
GatherInitialStep == tlpc = "initial" /\ tlpc' # "initial"
GatherRetryStep == tlpc = "retry" /\ (tlpc' = "done" \/ retry_round' = retry_round + 1)

SameCaptions(a, b) ==
    /\ Len(a) = Len(b)
    /\ \A i \in 1..Len(a) :
          /\ a[i].index = b[i].index
          /\ a[i].start_time = b[i].start_time
          /\ a[i].end_time = b[i].end_time

Residue(es) == {i \in 1..Len(es) : has_cyrillic(es[i].text)}

\* C2: applying a retry round's retry_map to a main stream whose ids are
\* unique changes the text of exactly the captions whose id is a key of the
\* map; every other caption keeps its text, every caption keeps its id, start
\* and end, and the stream keeps its length and order.
C2_UpsertChangesExactlyKeyed ==
    [][(GatherRetryStep /\ IdsDistinct(translated_entries)) =>
          /\ SameCaptions(translated_entries', translated_entries)
          /\ \A i \in 1..Len(translated_entries) :
                (translated_entries[i].index \in DOMAIN retry_map')
                    <=> (translated_entries'[i].text # translated_entries[i].text)]_vars

\* A retry round has applied a map that holds some, but not all, ids of a
\* stream of unique ids.
C2_Witness ==
    /\ retry_round >= 1
    /\ DOMAIN retry_map # {}
    /\ IdsDistinct(translated_entries)
    /\ Len(translated_entries) >= 3
    /\ \E i, j \in 1..Len(translated_entries) :
          /\ translated_entries[i].index \in DOMAIN retry_map
          /\ translated_entries[i] = retry_map[translated_entries[i].index]
          /\ translated_entries[j].index \notin DOMAIN retry_map
          /\ translated_entries[j].text = entries[j].text

\* C3: in every retry round, for every parsed stream, the captions sent are
\* exactly the captions whose text carries residue; a caption that is clean
\* when the round starts is not changed by the round (text, id, timing), and
\* the residue-bearing captions after the round are among those before it.
C3_RetryTouchesOnlyResidue ==
    [][GatherRetryStep =>
          /\ Flatten(tasks) = ToRetry(translated_entries)
          /\ Len(translated_entries') = Len(translated_entries)
          /\ \A i \in 1..Len(translated_entries) :
                ~has_cyrillic(translated_entries[i].text)
                    => translated_entries'[i] = translated_entries[i]
          /\ Residue(translated_entries') \subseteq Residue(translated_entries)]_vars

\* C4: from the initial gather to the end of the retry loop the main stream
\* has the length and the sequence of (id, start, end) of the input, and a
\* caption that carries residue when the loop has ended has its source text.
C4_StreamShapePreserved ==
    tlpc \in {"retry", "done"} =>
        /\ SameCaptions(translated_entries, entries)
        /\ tlpc = "done" =>
              \A i \in Residue(translated_entries) :
                  translated_entries[i].text = entries[i].text

\* C10: whatever the order in which the requests of a gather complete, in
\* the initial dispatch and in every retry round, the recombined results list
\* the captions in the order they were sent, batch 1 first, and the ids of
\* the main stream stay in the order of the input.
C10_RecombinedInBatchOrder ==
    [][(GatherInitialStep \/ GatherRetryStep) =>
          /\ SameCaptions(gathered', IF tlpc = "initial" THEN entries ELSE to_retry)
          /\ Len(translated_entries') = Len(entries)
          /\ \A i \in 1..Len(entries) : translated_entries'[i].index = entries[i].index]_vars

\* Two batches of the initial dispatch were followed by a retry round of at
\* least two batches whose last batch completed before its first.
C10_Witness ==
    /\ tlpc = "done"
    /\ retry_round >= 1
    /\ Len(entries) > BatchSize
    /\ Len(tasks) >= 2
    /\ finished[1] = Len(tasks)
    /\ finished[Len(tasks)] = 1
    /\ SameCaptions(gathered, to_retry)

\* The step in which task b returns.
BatchDoneStep(b) == batch_results[b] = NoResult /\ batch_results'[b] # NoResult

\* The texts of the reply lines tagged tag.
ReplyTexts(lines, tag) == {lines[i][2] : i \in {j \in 1..Len(lines) : lines[j][1] = tag}}

\* C12: translate_batch_async returns a caption as it was sent (text, id,
\* timing) when the reply has no line for its id or only residue-bearing
\* text for it; when the request raises, the whole batch is returned as it
\* was sent, the dispatcher goes on, and the results of the other tasks
\* are left alone.
C12_UntranslatedKeptAsSent ==
    [][\A b \in 1..Len(tasks) :
          BatchDoneStep(b) =>
              LET batch == tasks[b]
                  result == batch_results'[b]
                  response == responses'[b]
              IN  /\ tlpc' = tlpc /\ tasks' = tasks
                  /\ \A c \in 1..Len(tasks) : c # b => batch_results'[c] = batch_results[c]
                  /\ Len(result) = Len(batch)
                  /\ response[1] = "error" => result = batch
                  /\ response[1] = "ok" =>
                        \A p \in 1..Len(batch) :
                            (\A text \in ReplyTexts(response[2], Tag(batch[p])) :
                                 has_cyrillic(text))
                                => result[p] = batch[p]]_vars

\* Of two tasks, the first was answered with residue for its first caption,
\* no line for its last and translations for the others, and the request of
\* the second raised.
C12_Witness ==
    /\ Len(tasks) = 2
    /\ batch_results[1] # NoResult /\ batch_results[2] # NoResult
    /\ responses[2] = <<"error">>
    /\ batch_results[2] = tasks[2]
    /\ responses[1][1] = "ok"
    /\ LET n == Len(tasks[1])
       IN  /\ n >= 3
           /\ \E text \in ReplyTexts(responses[1][2], Tag(tasks[1][1])) : has_cyrillic(text)
           /\ ReplyTexts(responses[1][2], Tag(tasks[1][n])) = {}
           /\ batch_results[1][1] = tasks[1][1]
           /\ batch_results[1][n] = tasks[1][n]
           /\ batch_results[1][2].text # tasks[1][2].text

\* The reply with lines i and j exchanged.
Exchanged(lines, i, j) ==
    [k \in 1..Len(lines) |-> IF k = i THEN lines[j] ELSE IF k = j THEN lines[i] ELSE lines[k]]

\* C13: for any reply, the text given to the caption with id i is the text
\* of the reply line tagged [i], and the batch returned is the same for
\* every order of the lines of the reply.
C13_ReplyOrderIrrelevant ==
    \A b \in 1..Len(tasks) :
        (batch_results[b] # NoResult /\ responses[b][1] = "ok") =>
            LET lines == responses[b][2]
            IN  /\ \A p \in 1..Len(tasks[b]) :
                       \A text \in ReplyTexts(lines, Tag(tasks[b][p])) :
                           ~has_cyrillic(text) => batch_results[b][p].text = text
                /\ \A i, j \in 1..Len(lines) :
                       translate_batch_async(tasks[b], <<"ok", Exchanged(lines, i, j)>>)
                           = batch_results[b]

\* What the service did with the captions of task b: a clean text for every
\* caption sent, or a clean text for none (the request raised, or each
\* caption has no line or only residue-bearing lines).
OracleClean(b) ==
    /\ responses[b][1] = "ok"
    /\ \A p \in 1..Len(tasks[b]) :
          LET texts == ReplyTexts(responses[b][2], Tag(tasks[b][p]))
          IN  texts # {} /\ \A text \in texts : ~has_cyrillic(text)

OracleFailed(b) ==
    \/ responses[b][1] = "error"
    \/ \A p \in 1..Len(tasks[b]) :
          \A text \in ReplyTexts(responses[b][2], Tag(tasks[b][p])) : has_cyrillic(text)

\* C14: a retry round in which the service returns a clean translation for
\* every caption it is sent ends the loop in the success state: the
\* residue count is 0, no caption of the stream carries residue, and at most
\* max_retries rounds have run.
C14_CleanRetryConverges ==
    [][(GatherRetryStep /\ \A b \in 1..Len(tasks) : OracleClean(b)) =>
          /\ tlpc' = "done"
          /\ untranslated_count' = 0
          /\ Residue(translated_entries') = {}
          /\ Len(translated_entries') = Len(entries)
          /\ retry_round' = retry_round /\ retry_round <= max_retries]_vars

\* The initial dispatch left more than RetryBatchSize captions with residue
\* and the first retry round, answered clean, ended the loop with none.
C14_Witness ==
    /\ tlpc = "done"
    /\ retry_round = 1
    /\ Len(to_retry) > RetryBatchSize
    /\ \A b \in 1..Len(tasks) : OracleClean(b)
    /\ untranslated_count = 0
    /\ Residue(translated_entries) = {}

\* The steps the stage can still take are at most Rank: the requests
\* awaited in this round, its gather, the rounds that may follow, and the
\* writing of the file.
Pending == Cardinality({b \in 1..Len(tasks) : batch_results[b] = NoResult})
Rank ==
    IF tlpc = "done" THEN (IF output_srt.written THEN 0 ELSE 1)
    ELSE (IF tlpc = "start" THEN Len(entries) + 3 ELSE Pending + 2)
             + (max_retries - retry_round) * (Len(entries) + 1)

\* C15: when the service fails on every retry (no line, residue, or the
\* request raises), each round leaves the stream as it was, the loop goes
\* on to the next round or, after the last, ends; the function then returns
\* (nothing is raised), and the list of untranslated ids it reports is not
\* empty and is the list of ids that carried residue after the initial
\* dispatch.  The function terminates: every step lowers Rank, which is
\* never negative.
C15_FailingRetryTerminates ==
    [][/\ Rank' < Rank /\ Rank' >= 0
       /\ (GatherRetryStep /\ \A b \in 1..Len(tasks) : OracleFailed(b)) =>
             /\ to_retry = ToRetry(translated_entries)
             /\ translated_entries' = translated_entries
             /\ untranslated_count' = untranslated_count
             /\ untranslated_count' > 0
             /\ IF retry_round < max_retries
                THEN tlpc' = "retry" /\ to_retry' = to_retry
                ELSE /\ tlpc' = "done"
                     /\ FailedIndices(translated_entries') # <<>>
                     /\ FailedIndices(translated_entries')
                            = [k \in 1..Len(to_retry) |-> to_retry[k].index]]_vars

\* Both retry rounds failed on a stream part of which the initial dispatch
\* had translated.
C15_Witness ==
    /\ tlpc = "done"
    /\ retry_round = max_retries
    /\ \A b \in 1..Len(tasks) : OracleFailed(b)
    /\ untranslated_count > 0
    /\ untranslated_count < Len(entries)
    /\ Len(FailedIndices(translated_entries)) = untranslated_count
    /\ final_entries # <<>>

\* C16: the loop runs rounds 1, 2, ... and ends after the first round that
\* leaves no residue, or after round max_retries: a round that leaves the
\* residue count unchanged is followed by the next one, no round is run
\* when the count is 0, and none after round max_retries.
C16_RoundsUntilCleanOrMax ==
    [][/\ retry_round' <= max_retries
       /\ retry_round' # retry_round => (GatherInitialStep \/ GatherRetryStep)
       /\ GatherInitialStep =>
             /\ tlpc' = "done" <=> Residue(translated_entries') = {}
             /\ tlpc' # "done" => tlpc' = "retry" /\ retry_round' = 1
       /\ GatherRetryStep =>
             /\ tlpc' = "done"
                    <=> (Residue(translated_entries') = {} \/ retry_round = max_retries)
             /\ tlpc' # "done" => tlpc' = "retry" /\ retry_round' = retry_round + 1
       /\ tlpc = "done" => UNCHANGED tlVars]_vars

\* No caption was translated by the initial dispatch or by either round,
\* and the loop ended after round max_retries.
C16_Witness ==
    /\ tlpc = "done"
    /\ retry_round = max_retries
    /\ Len(entries) >= BatchSize
    /\ untranslated_count = Len(entries)

\* C17: every retry round batches its captions at a batch size strictly
\* smaller than the batch size of the round before (the initial dispatch
\* being round 0): each of its batches has fewer captions than that size.
C17_BatchSizeShrinks ==
    [][retry_round' = retry_round + 1 =>
          \A b \in 1..Len(tasks') : Len(tasks'[b]) < RoundBatchSize(retry_round)]_vars

RequestsOf(b) == Cardinality({i \in 1..Len(finished) : finished[i] = b})

\* C19: the batches of the initial dispatch are contiguous pieces of the
\* stream in stream order that together make up the stream; each but the
\* last has BatchSize captions, the last has 1..BatchSize; there are
\* ceil(N / BatchSize) of them and each is requested exactly once.
C19_InitialBatchesPartition ==
    (tlpc = "initial" \/ (tlpc = "done" /\ retry_round = 0)) =>
        LET n == Len(tasks)
        IN  /\ Flatten(tasks) = entries
            /\ n * BatchSize >= Len(entries) /\ (n = 0 \/ (n - 1) * BatchSize < Len(entries))
            /\ Len(entries) = 0 => n = 0
            /\ \A b \in 1..n :
                  /\ b < n => Len(tasks[b]) = BatchSize
                  /\ Len(tasks[b]) >= 1 /\ Len(tasks[b]) <= BatchSize
                  /\ RequestsOf(b) = IF batch_results[b] # NoResult THEN 1 ELSE 0
            /\ tlpc = "done" => Len(finished) = n

\* A stream of BatchSize + 1 captions went out as a batch of BatchSize and
\* a batch of 1, and both requests returned.
C19_Witness ==
    /\ tlpc = "done" /\ retry_round = 0
    /\ Len(entries) = BatchSize + 1
    /\ Len(tasks) = 2
    /\ Len(tasks[1]) = BatchSize /\ Len(tasks[2]) = 1
    /\ RequestsOf(1) = 1 /\ RequestsOf(2) = 1

\* Whether a caption carries the id of an input caption, not one derived
\* by the splitter.
PlainId(e) == Len(e.index) = 1

\* C24: the splitter runs only after the retry loop has ended: while the
\* loop runs nothing has been split, the split stream appears only in the
\* step that ends the loop, taken when every request of the last gather has
\* returned, no request completes afterwards, and no translation or retry
\* request ever carries a caption with a derived id.
C24_SplitOnlyAfterLoop ==
    [][/\ \A b \in 1..Len(tasks') : \A p \in 1..Len(tasks'[b]) : PlainId(tasks'[b][p])
       /\ tlpc' # "done" =>
              /\ final_entries' = <<>>
              /\ \A i \in 1..Len(translated_entries') : PlainId(translated_entries'[i])
       /\ final_entries' # final_entries =>
              tlpc # "done" /\ tlpc' = "done" /\ AllReturned
       /\ tlpc = "done" => UNCHANGED <<tasks, responses, batch_results, finished>>]_vars

\* Caption 1, a Russian text of three lines, was never translated: it was
\* sent again whole under its own id in both retry rounds and was split
\* only after the loop had ended.
C24_Witness ==
    /\ tlpc = "done"
    /\ retry_round = max_retries
    /\ Len(tasks) >= 1 /\ Len(tasks[1]) >= 1
    /\ tasks[1][1].index = <<1>>
    /\ Len(TextWords(tasks[1][1].text)) = 3
    /\ has_cyrillic(tasks[1][1].text)
    /\ Len(final_entries) > Len(translated_entries)
    /\ \E i \in 1..Len(final_entries) : final_entries[i].index = <<1, 1>>

\* C34: at every point of the translation and retry phase each caption of
\* the main stream carries either its own source text as parsed or a text
\* without source-language script; a reply with residue is never stored.
C34_SourceOrCleanText ==
    tlpc \in {"retry", "done"} =>
        /\ Len(translated_entries) = Len(entries)
        /\ \A i \in 1..Len(translated_entries) :
               \/ translated_entries[i].text = entries[i].text
               \/ ~has_cyrillic(translated_entries[i].text)
        /\ \A b \in 1..Len(tasks) :
               batch_results[b] # NoResult =>
                   \A p \in 1..Len(tasks[b]) :
                       \/ batch_results[b][p].text = tasks[b][p].text
                       \/ ~has_cyrillic(batch_results[b][p].text)

\* A retry request was answered with residue for a caption: the main stream
\* holds a caption with its source text and another with a translation.
C34_Witness ==
    /\ tlpc = "retry"
    /\ \E b \in 1..Len(tasks) :
           /\ responses[b] # NoResult
           /\ responses[b][1] = "ok"
           /\ \E l \in 1..Len(responses[b][2]) : has_cyrillic(responses[b][2][l][2])
           /\ \E p \in 1..Len(tasks[b]) : batch_results[b][p] = tasks[b][p]
    /\ \E i, j \in 1..Len(translated_entries) :
           /\ translated_entries[i].text = entries[i].text
           /\ has_cyrillic(translated_entries[i].text)
           /\ translated_entries[j].text # entries[j].text

\* The caption was in the batch of an answered request of the current
\* gather and the text is that of a reply line tagged with its id.
AnsweredInBatch(caption, text) ==
    \E b \in 1..Len(tasks) :
        /\ responses[b][1] = "ok"
        /\ \E p \in 1..Len(tasks[b]) : tasks[b][p] = caption
        /\ text \in ReplyTexts(responses[b][2], Tag(caption))

\* C38: a reply line tagged with an id that is not in the batch of its
\* request changes no caption: when a gather changes the text of a caption
\* of the main stream, the caption was in the batch of one of the requests
\* of that gather and the new text is a line of the reply to that request
\* tagged with the id of the caption.
C38_OnlyOwnBatchReplies ==
    [][/\ GatherInitialStep =>
              \A i \in 1..Len(translated_entries') :
                  translated_entries'[i].text # entries[i].text
                      => AnsweredInBatch(entries[i], translated_entries'[i].text)
       /\ GatherRetryStep =>
              \A i \in 1..Len(translated_entries') :
                  translated_entries'[i].text # translated_entries[i].text
                      => AnsweredInBatch(translated_entries[i],
                                         translated_entries'[i].text)]_vars

(***************************************************************************)
(* Chunk planner (split_audio).  Sizes are in KiB, the audio duration in   *)
(* tenths of a second, chunk_duration in seconds as the code truncates it. *)
(* Inputs: audio of 5 to 5 * MaxFiveMinutes minutes, or half a second      *)
(* more, at 4, 15.6, 40 or 100 KiB per second (the extracted audio is      *)
(* 128 kbit/s), and files of exactly the API limit and one KiB above it.   *)
(***************************************************************************)
MaxFiveMinutes == 24
max_size == 24 * 1024
target_chunk_bytes == 12 * 1024
MinChunkDuration == 300
MaxChunkDuration == 900

AudioDurations == {3000 * k + e : k \in 1..MaxFiveMinutes, e \in {0, 5}}
\* KiB per 100 seconds.
Bitrates == {400, 1562, 4000, 10000}
PlanInputs ==
    {<<(rate * d) \div 1000, d>> : rate \in Bitrates, d \in AudioDurations}
        \cup {<<size, 15730>> : size \in {max_size, max_size + 1}}

Min(a, b) == IF a <= b THEN a ELSE b
Max(a, b) == IF a >= b THEN a ELSE b

\* int(target_chunk_bytes / (file_size / duration))
PlannedDuration(size, dur) == (target_chunk_bytes * dur) \div (10 * size)

\* max(300, min(chunk_duration, 900))
ClampDuration(cd) == Max(MinChunkDuration, Min(cd, MaxChunkDuration))

\* Mutant: the remainder of the audio gets no chunk.
NumChunksFloor(dur, cd) == dur \div (10 * cd)

\* int(duration / chunk_duration) + (1 if duration % chunk_duration > 0 else 0)
NumChunks(dur, cd) == dur \div (10 * cd) + (IF dur % (10 * cd) > 0 THEN 1 ELSE 0)

\* The file returned when no splitting is needed: the whole audio.
WholeFile(dur) == [start |-> 0, end |-> dur]

\* ffmpeg -ss i * chunk_duration -t chunk_duration -acodec copy: the audio
\* from the start time for chunk_duration seconds, or up to its end.
ChunkFile(i, cd, dur) == [start |-> i * cd * 10, end |-> Min((i + 1) * cd * 10, dur)]

InitPlan ==
    /\ \E input \in PlanInputs : file_size = input[1] /\ duration = input[2]
    /\ chunk_duration = 0
    /\ chunks = <<>>
    /\ ppc = "start"
    /\ SplitIdle
    /\ TranscribeIdle
    /\ TranslateIdle

\* The size test: the file is returned whole, or its duration is measured
\* and the chunk duration computed; ffprobe failing raises.
PlanSize ==
    /\ ppc = "start"
    /\ IF file_size <= max_size
       THEN /\ chunks' = <<WholeFile(duration)>>
            /\ ppc' = "done"
            /\ UNCHANGED chunk_duration
       ELSE \/ /\ chunk_duration' = ClampDuration(PlannedDuration(file_size, duration))
               /\ ppc' = IF NumChunks(duration, chunk_duration') = 0 THEN "done" ELSE "cut"
               /\ UNCHANGED chunks
            \/ ppc' = "raised" /\ UNCHANGED <<chunk_duration, chunks>>
    /\ UNCHANGED <<file_size, duration, splitVars, trVars, tlVars, output_srt>>

\* One pass of the loop: ffmpeg writes the next chunk, or fails, which
\* raises out of split_audio.
PlanCut ==
    /\ ppc = "cut"
    /\ \/ /\ chunks' = Append(chunks, ChunkFile(Len(chunks), chunk_duration, duration))
          /\ ppc' = IF Len(chunks') = NumChunks(duration, chunk_duration)
                    THEN "done" ELSE "cut"
       \/ ppc' = "raised" /\ UNCHANGED chunks
    /\ UNCHANGED <<file_size, duration, chunk_duration, splitVars, trVars, tlVars, output_srt>>

NextPlan == PlanSize \/ PlanCut

SpecPlan == InitPlan /\ [][NextPlan]_vars

(***************************************************************************)
(* Claims about the chunk planner (checked under SpecPlan)                 *)
(***************************************************************************)
\* C25: split_audio returns exactly one chunk, the whole file, when the
\* size is at most the ceiling; otherwise exactly ceil(D / chunk_duration)
\* chunks, chunk i starting at (i-1) * chunk_duration, which cover [0, D)
\* with no gap and no overlap, only the last possibly shorter than
\* chunk_duration.
C25_ChunksCoverAudio ==
    ppc = "done" =>
        IF file_size <= max_size
        THEN chunks = <<[start |-> 0, end |-> duration]>>
        ELSE LET cd == 10 * chunk_duration
                 n == Len(chunks)
             IN  /\ n = (duration + cd - 1) \div cd
                 /\ n >= 1
                 /\ \A i \in 1..n : chunks[i].start = (i - 1) * cd
                 /\ \A i \in 1..(n - 1) :
                        /\ chunks[i].end = chunks[i + 1].start
                        /\ chunks[i].end - chunks[i].start = cd
                 /\ chunks[n].end = duration
                 /\ chunks[n].end > chunks[n].start
                 /\ chunks[n].end - chunks[n].start <= cd

\* An audio of 10 minutes and half a second at 100 KiB per second was cut
\* into two chunks of 5 minutes and a third of half a second.
C25_Witness ==
    /\ ppc = "done"
    /\ file_size > max_size
    /\ duration = 6005
    /\ chunk_duration = 300
    /\ Len(chunks) = 3
    /\ chunks[3] = [start |-> 6000, end |-> 6005]

C30_EmptyInputIsAnError ==
    (tlpc # "idle" /\ entries = <<>>) =>
        /\ tasks = <<>>
        /\ tlpc # "done"
        /\ ~output_srt.written

====
